---- MODULE Spec2Model ----
(***************************************************************************)
(* Model of the upload controller of lolisafe                              *)
(* (src/controllers/uploadController.js): identifier allocation, chunk     *)
(* sessions and their reassembly, URL ingestion, and the dedup/persistence *)
(* step.  Every "await" of the source is a point where other requests may  *)
(* run; the code between two awaits is one atomic step (node runs one      *)
(* callback at a time).                                                    *)
(***************************************************************************)
EXTENDS Integers, Sequences, FiniteSets, TLC

(***************************************************************************)
(* Bounds of the model.                                                    *)
(***************************************************************************)
\* how many distinct random strings randomstring.generate can return
NumIdentifiers == 2
\* concurrent direct callers of getUniqueRandomName
NumCallers == 2
\* utils.idMaxTries, the retry budget of getUniqueRandomName (set by the
\* deployment in utilsController, outside the controller)
idMaxTries == 2

\* file-batch upload requests, and files per request (multer allows
\* maxFilesPerUpload of them)
NumUploads == 2
MaxBatch == 2
\* files received by all the requests of one run together
MaxFiles == 2
\* fragments of the chunk session that is combined in turn, and how many
\* of its outstanding fragments the client has in flight at once
MaxTotalChunks == 11
MaxInFlight == 2
\* chunk sessions (uuids), fragment requests in progress at once, fragment
\* requests of one run, and the total chunk count their clients announce
NumSessions == 2
NumFragmentRequests == 2
MaxFragments == 3
\* finalize requests, and sessions named by one of them
NumFinalizers == 1
MaxFinalizeFiles == 2
\* upload-by-URL requests, and URLs per request (the code allows
\* maxFilesPerUpload of them)
NumUrlRequests == 2
MaxUrls == 2
\* how many seconds pass in one run
MaxTicks == 1

Identifiers == 1..NumIdentifiers
Callers == 1..NumCallers
Extensions == {".png", ".jpg"}
Uploads == 1..NumUploads
\* the userid column of an anonymous upload
NULL == 0
\* the acting owner: undefined (stored as NULL), or a user's id
Owners == {NULL, 1}
\* what a client may send as one file
FileContents == {<<0>>, <<0, 1>>}
\* the time the process starts at, in seconds
Epoch == 1000
\* utils.clamd.scanner is not set
NoScanner == [scanner |-> FALSE, groupBypass |-> "", whitelistExtensions |-> <<>>,
              maxSize |-> 0]

VARIABLES
  cacheFileIdentifiers, \* config.uploads.cacheFileIdentifiers
  idSet,                \* utils.idSet: identifiers handed out so far
  uploads,              \* the uploads directory: file name -> bytes
  callers               \* the activations of getUniqueRandomName

VARIABLES
  db,                   \* the rows of the files table, in insertion order
  up                    \* the file-batch upload requests (POST /upload)

VARIABLES
  re                    \* one chunk session received and combined in turn

VARIABLES
  chunksData,           \* chunksData: session id -> { root, chunks, size }
  chunkDirs,            \* the directories under paths.chunks, one per session id
  frag,                 \* the requests that carry one fragment
  received,             \* how many fragment requests have arrived
  fin                   \* the finalize requests (finishChunks)

VARIABLES
  url                   \* the upload-by-URL requests (POST /upload with urls)

VARIABLES
  now,                  \* Math.floor(Date.now() / 1000)
  temporaryUploadAges,  \* config.uploads.temporaryUploadAges
  clamd,                \* utils.clamd: the scanner and its bypass group
  filterEmptyFile,      \* config.filterEmptyFile
  call,                 \* one application of a function of the controller
  ls                    \* the listing requests (self.list)

chunkVars == <<chunksData, chunkDirs, frag, received, fin>>

vars == <<cacheFileIdentifiers, idSet, uploads, callers, db, up, re,
          chunksData, chunkDirs, frag, received, fin, url,
          now, temporaryUploadAges, clamd, filterEmptyFile, call, ls>>

\* what the steps of one part of the controller leave alone
policyVars == <<now, temporaryUploadAges, clamd, filterEmptyFile>>
listVars == <<call, ls>>
otherThanAlloc == <<db, up, re, chunkVars, url, policyVars, listVars>>
otherThanStore == <<cacheFileIdentifiers, callers, re, chunkVars, url, policyVars, listVars>>
otherThanReassembly == <<cacheFileIdentifiers, idSet, uploads, callers, db, up, chunkVars, url,
                         policyVars, listVars>>
otherThanChunks == <<cacheFileIdentifiers, callers, re, url, policyVars, listVars>>
otherThanUrls == <<cacheFileIdentifiers, callers, re, chunkVars, policyVars, listVars>>
otherThanList == <<cacheFileIdentifiers, idSet, uploads, callers, db, up, re, chunkVars, url,
                   policyVars, call>>

(***************************************************************************)
(* Files and names.                                                        *)
(***************************************************************************)
Range(f) == {f[i] : i \in DOMAIN f}

\* name = identifier + extension
FileName(identifier, extension) == [id |-> identifier, ext |-> extension]

NoName == [id |-> 0, ext |-> ""]

\* paths.writeFile / a write stream: creates or replaces the file
WriteFile(dir, name, bytes) ==
  [n \in (DOMAIN dir) \cup {name} |-> IF n = name THEN bytes ELSE dir[n]]

\* paths.unlink on a file that exists
RemoveFile(dir, name) == [n \in (DOMAIN dir) \ {name} |-> dir[n]]

\* utils.unlinkFile(filename): the file of that name in the uploads
\* directory is gone afterwards
UnlinkFile(dir, filename) == RemoveFile(dir, filename)

(***************************************************************************)
(* self.getUniqueRandomName                                                *)
(***************************************************************************)
\* error & error.code !== 'ENOENT': the comparison binds tighter than the
\* bitwise and; ToInt32 of an Error object is 0, and 0 & x is 0 (falsy)
ToInt32OfErrorObject == 0

BitAnd01(a, b) == IF a = 1 /\ b = 1 THEN 1 ELSE 0

RethrowsAccessError(code) ==
  BitAnd01(ToInt32OfErrorObject, IF code # "ENOENT" THEN 1 ELSE 0) # 0

\* In cache mode the loop of getUniqueRandomName has no await, so a call is
\* one step: the outcomes of the loop from iteration i on, given the
\* identifiers in use; each iteration draws any identifier.
RECURSIVE CachedTries(_, _, _)
CachedTries(i, used, extension) ==
  IF i < idMaxTries
  THEN UNION { IF identifier \in used
               THEN CachedTries(i + 1, used, extension)
               ELSE {[ok |-> TRUE, name |-> FileName(identifier, extension), tries |-> i + 1]}
               : identifier \in Identifiers }
  ELSE {[ok |-> FALSE, name |-> NoName, tries |-> i]}

\* getUniqueRandomName(length, extension) with config.uploads.cacheFileIdentifiers
GetUniqueRandomNameCached(used, extension) == CachedTries(0, used, extension)

\* a loop that goes round without counting the attempt
ContinueUncounted(c) == callers' = [callers EXCEPT ![c].pc = "loop"]

\* the loop condition i < utils.idMaxTries, reached by "continue"
Continue(c) ==
  callers' = [callers EXCEPT ![c].i = @ + 1,
                             ![c].pc = IF callers[c].i + 1 < idMaxTries
                                       THEN "loop" ELSE "thrown"]

\* a caller (multer's filename, a URL task, a finalize task) calls
\* getUniqueRandomName(length, extension); in cache mode the call runs to
\* its end, in file mode to the first await
Call(c) ==
  /\ callers[c].pc = "idle"
  /\ \E extension \in Extensions :
       IF cacheFileIdentifiers
       THEN \E out \in GetUniqueRandomNameCached(idSet, extension) :
              /\ idSet' = IF out.ok THEN idSet \cup {out.name.id} ELSE idSet
              /\ callers' = [callers EXCEPT
                               ![c].pc = IF out.ok THEN "returned" ELSE "thrown",
                               ![c].i = out.tries,
                               ![c].ext = extension,
                               ![c].name = out.name]
       ELSE /\ callers' = [callers EXCEPT
                             ![c].pc = IF 0 < idMaxTries THEN "loop" ELSE "thrown",
                             ![c].i = 0,
                             ![c].ext = extension]
            /\ UNCHANGED idSet
  /\ UNCHANGED <<cacheFileIdentifiers, uploads>>
  /\ UNCHANGED otherThanAlloc

\* file mode: one iteration of the loop up to its await
Attempt(c) ==
  /\ callers[c].pc = "loop"
  /\ \E identifier \in Identifiers :
       callers' = [callers EXCEPT
                     ![c].pc = "access",
                     ![c].name = FileName(identifier, callers[c].ext)]
  /\ UNCHANGED <<cacheFileIdentifiers, idSet, uploads>>
  /\ UNCHANGED otherThanAlloc

\* file mode: await paths.access(path.join(paths.uploads, name)) settles
Access(c) ==
  /\ callers[c].pc = "access"
  /\ \/ /\ callers[c].name \in DOMAIN uploads      \* resolved: already in use
        /\ Continue(c)
     \/ /\ callers[c].name \notin DOMAIN uploads   \* rejected with ENOENT
        /\ callers' = [callers EXCEPT
                         ![c].pc = IF RethrowsAccessError("ENOENT")
                                   THEN "thrown" ELSE "returned",
                         ![c].code = "ENOENT"]
     \/ /\ callers' = [callers EXCEPT              \* rejected with another error
                         ![c].pc = IF RethrowsAccessError("EACCES")
                                   THEN "thrown" ELSE "returned",
                         ![c].code = "EACCES"]
  /\ UNCHANGED <<cacheFileIdentifiers, idSet, uploads>>
  /\ UNCHANGED otherThanAlloc

\* the caller stores its file under the name it was given
CallerWrites(c) ==
  /\ callers[c].pc = "returned"
  /\ uploads' = WriteFile(uploads, callers[c].name, <<0>>)
  /\ callers' = [callers EXCEPT ![c].pc = "written"]
  /\ UNCHANGED <<cacheFileIdentifiers, idSet>>
  /\ UNCHANGED otherThanAlloc

(***************************************************************************)
(* self.storeFilesToDb and the file-batch path of self.upload, with no     *)
(* scanner configured, tag stripping off and empty files allowed.          *)
(***************************************************************************)
\* crypto.createHash('md5') over the file's bytes: a digest computed from
\* every byte and the length (distinct on the contents the model uploads)
RECURSIVE md5(_)
md5(bytes) ==
  IF bytes = <<>> THEN 7
  ELSE (31 * md5(SubSeq(bytes, 1, Len(bytes) - 1)) + bytes[Len(bytes)] + 1) % 65536

\* a dedup query that leaves out the owner scope
MatchingRowsOfAnyOwner(user, hash, size) ==
  { i \in DOMAIN db : db[i].hash = hash /\ db[i].size = size }

\* the rows the dedup query matches: same owner scope (whereNull('userid')
\* for an undefined user, else where('userid', user.id)), same hash and size
MatchingRows(user, hash, size) ==
  { i \in DOMAIN db :
      /\ db[i].userid = user
      /\ db[i].hash = hash
      /\ db[i].size = size }

\* a prepared file of infoMap: info.data.filename, .size, .albumid, .age
Info(filename, size, albumid, age) ==
  [filename |-> filename, size |-> size, albumid |-> albumid, age |-> age]

\* the values an age takes in the program: undefined, null, a number or a
\* string (a sequence of characters)
Undefined == [type |-> "undefined", num |-> 0, str |-> <<>>]
Null == [type |-> "null", num |-> 0, str |-> <<>>]
Num(n) == [type |-> "number", num |-> n, str |-> <<>>]
Str(chars) == [type |-> "string", num |-> 0, str |-> chars]
\* the number NaN
NaN == -1
\* an age that is not given
NoAge == Undefined

Digits == <<"0", "1", "2", "3", "4", "5", "6", "7", "8", "9">>
IsDigit(c) == \E d \in DOMAIN Digits : Digits[d] = c
DigitValue(c) == (CHOOSE d \in DOMAIN Digits : Digits[d] = c) - 1

\* the value of a string of digits
RECURSIVE DigitsValue(_)
DigitsValue(chars) ==
  IF chars = <<>> THEN 0
  ELSE 10 * DigitsValue(SubSeq(chars, 1, Len(chars) - 1)) + DigitValue(chars[Len(chars)])

\* the longest prefix of digits
RECURSIVE DigitPrefix(_)
DigitPrefix(chars) ==
  IF chars = <<>> \/ ~IsDigit(Head(chars)) THEN <<>>
  ELSE <<Head(chars)>> \o DigitPrefix(Tail(chars))

\* parseFloat(v): the number a string starts with, whatever follows it;
\* NaN when it starts with none
parseFloat(v) ==
  CASE v.type = "number" -> v.num
    [] v.type = "string" -> IF DigitPrefix(v.str) = <<>> THEN NaN
                            ELSE DigitsValue(DigitPrefix(v.str))
    [] OTHER -> NaN

\* the number v is converted to by the * operator: the whole string must
\* be a number; the empty string and null are 0
ToNumber(v) ==
  CASE v.type = "number" -> v.num
    [] v.type = "string" -> IF v.str = <<>> THEN 0
                            ELSE IF DigitPrefix(v.str) = v.str THEN DigitsValue(v.str)
                            ELSE NaN
    [] v.type = "null" -> 0
    [] OTHER -> NaN

\* if (v): undefined, null, 0, NaN and the empty string are falsy
Truthy(v) ==
  CASE v.type = "number" -> v.num \notin {0, NaN}
    [] v.type = "string" -> v.str # <<>>
    [] OTHER -> FALSE

\* config.uploads.temporaryUploadAges.includes(n)
Includes(ages, n) == \E i \in DOMAIN ages : ages[i] = n

\* a resolution that takes every number the client sends
parseUploadAgeUnchecked(ages, age) ==
  IF age.type \in {"undefined", "null"} THEN Num(ages[1])
  ELSE Num(parseFloat(age))

\* self.parseUploadAge(age)
parseUploadAge(ages, age) ==
  IF age.type \in {"undefined", "null"} THEN Num(ages[1])
  ELSE IF Includes(ages, parseFloat(age)) THEN Num(parseFloat(age))
  ELSE Null

\* the albums table: album 1 belongs to user 1, album 2 to user 2
Albums == {[id |-> 1, userid |-> 1], [id |-> 2, userid |-> 2]}

\* the row built for a file that is no duplicate: userid and albumid only
\* for a user, expirydate only for a truthy age
NewRow(info, hash, user, timestamp) ==
  [name |-> info.filename, size |-> info.size, hash |-> hash, userid |-> user,
   albumid |-> IF user # NULL THEN info.albumid ELSE NULL,
   timestamp |-> timestamp,
   expirydate |-> IF ~Truthy(info.age) THEN NULL
                  ELSE IF ToNumber(info.age) = NaN THEN NaN
                  ELSE timestamp + (ToNumber(info.age) * 3600)]

\* an album counts as authorized whoever owns it
AuthorizedIdsOfAnyOwner(files, user) ==
  {a.id : a \in {b \in Albums : \E i \in DOMAIN files : files[i].albumid = b.id}}

\* authorizedIds: the albums among albumids that belong to the user
AuthorizedIds(files, user) ==
  {a.id : a \in {b \in Albums : /\ b.userid = user
                                 /\ \E i \in DOMAIN files : files[i].albumid = b.id}}

\* "Remove albumid if user do not own the album"
AuthorizeAlbums(files, user) ==
  [i \in DOMAIN files |->
     IF files[i].albumid # NULL /\ files[i].albumid \notin AuthorizedIds(files, user)
     THEN [files[i] EXCEPT !.albumid = NULL]
     ELSE files[i]]

AllTasks(r, pcs) == \A k \in DOMAIN up[r].task : up[r].task[k] \in pcs

\* multer stores the files of the request one after the other, each under
\* a name from getUniqueRandomName (cache mode); None when a name could not
\* be allocated.  Yields the sets of <<infos, identifiers used, directory>>.
RECURSIVE MulterStore(_, _, _, _)
MulterStore(batch, infos, used, dir) ==
  IF batch = <<>> THEN {[ok |-> TRUE, infos |-> infos, used |-> used, dir |-> dir]}
  ELSE UNION {
         IF out.ok
         THEN MulterStore(Tail(batch),
                          Append(infos, Info(out.name, Len(Head(batch)), NULL, NoAge)),
                          used \cup {out.name.id},
                          WriteFile(dir, out.name, Head(batch)))
         ELSE {[ok |-> FALSE, infos |-> infos, used |-> used, dir |-> dir]}
         : out \in GetUniqueRandomNameCached(used, ".png") }

\* multer removes the files it stored when the request fails in it
RECURSIVE RemoveAll(_, _)
RemoveAll(dir, infos) ==
  IF infos = <<>> THEN dir
  ELSE RemoveAll(RemoveFile(dir, Head(infos).filename), Tail(infos))

RECURSIVE SumLen(_, _)
SumLen(f, S) ==
  IF S = {} THEN 0
  ELSE LET x == CHOOSE y \in S : TRUE IN Len(f[x]) + SumLen(f, S \ {x})

FilesReceived == SumLen([r \in Uploads |-> up[r].batch], Uploads)

Batches == UNION { [1..n -> FileContents] : n \in 1..MaxBatch }

\* self.upload -> self.actuallyUploadFiles: executeMulter receives the
\* files; storeFilesToDb then starts one task per file
UploadFiles(r) ==
  /\ up[r].pc = "idle"
  /\ \A q \in Uploads : q < r => up[q].pc # "idle"
  /\ \E user \in Owners, batch \in Batches :
       /\ FilesReceived + Len(batch) <= MaxFiles
       /\ \E m \in MulterStore(batch, <<>>, idSet, uploads) :
          /\ idSet' = m.used
          /\ uploads' = IF m.ok THEN m.dir ELSE RemoveAll(m.dir, m.infos)
          /\ up' = [up EXCEPT
                     ![r].pc = IF m.ok THEN "tasks" ELSE "failed",
                     ![r].user = user,
                     ![r].batch = batch,
                     ![r].infoMap = IF m.ok THEN m.infos ELSE <<>>,
                     ![r].task = IF m.ok THEN [k \in DOMAIN batch |-> "lookup"] ELSE <<>>,
                     ![r].after = {q \in Uploads : up[q].pc \in {"done", "failed"}}]
  /\ UNCHANGED db
  /\ UNCHANGED otherThanStore

\* one task of storeFilesToDb: the hash of the file, then the dedup query;
\* a file with no matching row is pushed to files.  A file that is not
\* there fails the read stream: the task is rejected and storeFilesToDb
\* throws, while its other tasks go on
StoreLookup(r, k) ==
  /\ up[r].pc \in {"tasks", "failed"}
  /\ k \in DOMAIN up[r].task
  /\ up[r].task[k] = "lookup"
  /\ LET info == up[r].infoMap[k]
     IN IF info.filename \notin DOMAIN uploads
        THEN up' = [up EXCEPT ![r].task[k] = "done", ![r].pc = "failed"]
        ELSE LET hash == md5(uploads[info.filename])
                 rows == MatchingRows(up[r].user, hash, info.size)
             IN IF rows = {}
                THEN up' = [up EXCEPT ![r].task[k] = "done",
                                      ![r].files = Append(@, NewRow(info, hash, up[r].user, now))]
                ELSE \E i \in rows :  \* .first(), with no ORDER BY
                       up' = [up EXCEPT ![r].task[k] = "unlink",
                                        ![r].dbFile[k] = db[i]]
  /\ UNCHANGED <<idSet, uploads, db>>
  /\ UNCHANGED otherThanStore

\* a duplicate: await utils.unlinkFile(info.data.filename), exists.push(dbFile)
StoreUnlinkDuplicate(r, k) ==
  /\ up[r].pc \in {"tasks", "failed"}
  /\ k \in DOMAIN up[r].task
  /\ up[r].task[k] = "unlink"
  /\ uploads' = UnlinkFile(uploads, up[r].infoMap[k].filename)
  /\ up' = [up EXCEPT ![r].task[k] = "done",
                      ![r].exists = Append(@, up[r].dbFile[k])]
  /\ UNCHANGED <<idSet, db>>
  /\ UNCHANGED otherThanStore

\* a response that lists the inserted files only
ResponseFilesInserted(files, exists) ==
  [i \in 1..Len(files) |-> [name |-> files[i].name, expirydate |-> files[i].expirydate]]

\* the entry of one file in the response: its name, and its expirydate
\* when it has one
ResponseEntry(file) == [name |-> file.name, expirydate |-> file.expirydate]

\* sendUploadResponse: the entries of files.concat(exists)
ResponseFiles(files, exists) ==
  [i \in 1..Len(files \o exists) |-> ResponseEntry((files \o exists)[i])]

\* after Promise.all: the album ids that the user does not own are removed,
\* db.table('files').insert(files) when there are new files, then the
\* response; the insert may fail, and the error reaches self.upload, which
\* answers success: false
StoreInsert(r) ==
  /\ up[r].pc = "tasks"
  /\ AllTasks(r, {"done"})
  /\ \/ LET files == AuthorizeAlbums(up[r].files, up[r].user)
        IN /\ db' = db \o files
           /\ up' = [up EXCEPT ![r].pc = "done",
                               ![r].files = files,
                               ![r].response = ResponseFiles(files, up[r].exists)]
     \/ /\ up[r].files # <<>>
        /\ up' = [up EXCEPT ![r].pc = "failed"]
        /\ UNCHANGED db
  /\ UNCHANGED <<idSet, uploads>>
  /\ UNCHANGED otherThanStore

IdleUpload ==
  [pc |-> "idle", user |-> NULL, batch |-> <<>>, infoMap |-> <<>>, task |-> <<>>,
   path |-> "", ages |-> <<>>, albumids |-> <<>>, error |-> "",
   dbFile |-> [k \in 1..MaxBatch |-> NewRow(Info(NoName, 0, NULL, NoAge), 0, NULL, 0)],
   files |-> <<>>, exists |-> <<>>, after |-> {}, response |-> <<>>,
   unlink |-> <<>>, scan |-> <<>>, reply |-> <<>>, foundThreats |-> <<>>,
   scanResult |-> [text |-> "", threat |-> <<>>, more |-> FALSE]]

InitStore ==
  /\ cacheFileIdentifiers = TRUE
  /\ idSet = {}
  /\ uploads = <<>>
  /\ callers = <<>>
  /\ db = <<>>
  /\ up = [r \in Uploads |-> IdleUpload]
  /\ re = <<>>
  /\ chunksData = <<>>
  /\ chunkDirs = <<>>
  /\ frag = <<>>
  /\ received = 0
  /\ fin = <<>>
  /\ url = <<>>
  /\ now = Epoch
  /\ temporaryUploadAges = <<>>
  /\ clamd = NoScanner
  /\ filterEmptyFile = FALSE
  /\ call = <<>>
  /\ ls = <<>>

NextStore ==
  \E r \in Uploads :
    \/ UploadFiles(r)
    \/ \E k \in 1..MaxBatch : StoreLookup(r, k)
    \/ \E k \in 1..MaxBatch : StoreUnlinkDuplicate(r, k)
    \/ StoreInsert(r)

SpecStore == InitStore /\ [][NextStore]_vars

(***************************************************************************)
(* Fragment names (executeMulter's storage.filename) and self.combineChunks *)
(***************************************************************************)
\* `${n}` for n >= 0, as its sequence of decimal digits
RECURSIVE Decimal(_)
Decimal(n) == IF n < 10 THEN <<n>> ELSE Append(Decimal(n \div 10), n % 10)

\* str.slice(-digits): the last digits characters, all of str when shorter
SliceLast(str, digits) ==
  IF Len(str) <= digits THEN str ELSE SubSeq(str, Len(str) - digits + 1, Len(str))

\* a fragment name that is the index as sent, with no zeros prepended
ChunkFileNameUnpadded(totalchunkcount, chunkindex) == Decimal(chunkindex)

\* digits = `${totalchunkcount - 1}`.length; zeros = '0' repeated digits
\* times; name = (zeros + chunkindex).slice(-digits)
ChunkFileName(totalchunkcount, chunkindex) ==
  LET digits == Len(Decimal(totalchunkcount - 1))
      zeros == [i \in 1..digits |-> 0]
  IN SliceLast(zeros \o Decimal(chunkindex), digits)

\* the order of Array.prototype.sort() with no comparator: by code units,
\* a proper prefix first
RECURSIVE StringLess(_, _)
StringLess(a, b) ==
  IF a = <<>> THEN b # <<>>
  ELSE IF b = <<>> THEN FALSE
  ELSE IF Head(a) # Head(b) THEN Head(a) < Head(b)
  ELSE StringLess(Tail(a), Tail(b))

RECURSIVE InsertSorted(_, _)
InsertSorted(sorted, x) ==
  IF sorted = <<>> THEN <<x>>
  ELSE IF StringLess(x, Head(sorted)) THEN <<x>> \o sorted
  ELSE <<Head(sorted)>> \o InsertSorted(Tail(sorted), x)

\* chunksData[uuid].chunks.sort()
RECURSIVE SortChunks(_)
SortChunks(chunks) ==
  IF chunks = <<>> THEN <<>>
  ELSE InsertSorted(SortChunks(SubSeq(chunks, 1, Len(chunks) - 1)), chunks[Len(chunks)])

\* the loop of combineChunks: every listed fragment file is appended to the
\* destination, in the order of the list
RECURSIVE AppendChunks(_, _, _)
AppendChunks(bytes, chunks, dir) ==
  IF chunks = <<>> THEN bytes
  ELSE AppendChunks(bytes \o dir[Head(chunks)], Tail(chunks), dir)

\* what the client sends as fragment i: one or two bytes that tell i
Payload(i) == [j \in 1..(1 + (i % 2)) |-> i]

\* the fragments the client may send next: the MaxInFlight lowest (or, for
\* a client that sends from the end, highest) outstanding indices
Outstanding == (0..(re.total - 1)) \ re.sent

InFlight ==
  { i \in Outstanding :
      Cardinality({j \in Outstanding : IF re.fromEnd THEN j > i ELSE j < i}) < MaxInFlight }

\* one fragment of the session: multer names and writes it, and
\* actuallyUploadFiles records its name
ReceiveChunk(i) ==
  /\ re.pc = "receiving"
  /\ i \in InFlight
  /\ LET name == ChunkFileName(re.total, i)
     IN re' = [re EXCEPT !.sent = @ \cup {i},
                         !.dir = WriteFile(@, name, Payload(i)),
                         !.chunks = Append(@, name)]
  /\ UNCHANGED otherThanReassembly

\* finalize: combineChunks sorts the names and appends the files
CombineChunks ==
  /\ re.pc = "receiving"
  /\ Outstanding = {}
  /\ re' = [re EXCEPT !.pc = "combined",
                      !.chunks = SortChunks(@),
                      !.combined = AppendChunks(<<>>, SortChunks(re.chunks), re.dir)]
  /\ UNCHANGED otherThanReassembly

InitReassembly ==
  /\ cacheFileIdentifiers = TRUE
  /\ idSet = {}
  /\ uploads = <<>>
  /\ callers = <<>>
  /\ db = <<>>
  /\ up = <<>>
  /\ re \in { [pc |-> "receiving", total |-> k, fromEnd |-> e, sent |-> {},
               dir |-> <<>>, chunks |-> <<>>, combined |-> <<>>]
              : k \in 2..MaxTotalChunks, e \in BOOLEAN }
  /\ chunksData = <<>>
  /\ chunkDirs = <<>>
  /\ frag = <<>>
  /\ received = 0
  /\ fin = <<>>
  /\ url = <<>>
  /\ now = Epoch
  /\ temporaryUploadAges = <<>>
  /\ clamd = NoScanner
  /\ filterEmptyFile = FALSE
  /\ call = <<>>
  /\ ls = <<>>

NextReassembly == (\E i \in 0..(MaxTotalChunks - 1) : ReceiveChunk(i)) \/ CombineChunks

SpecReassembly == InitReassembly /\ [][NextReassembly]_vars

\* the payloads of fragments 0..k-1, in that order
RECURSIVE PayloadsInIndexOrder(_)
PayloadsInIndexOrder(k) ==
  IF k = 0 THEN <<>> ELSE PayloadsInIndexOrder(k - 1) \o Payload(k - 1)

\* C4: for fragments 0..k-1 (k >= 2) named with the same total chunk count,
\* the combined file is the concatenation of the payloads in increasing
\* index order, whatever the order of arrival.
C4_CombinedInIndexOrder ==
  re.pc = "combined" => re.combined = PayloadsInIndexOrder(re.total)

\* a session of more than ten fragments whose last fragment arrived first
C4_Witness ==
  /\ re.pc = "combined"
  /\ re.total > 10
  /\ re.fromEnd
  /\ re.combined = PayloadsInIndexOrder(re.total)

(***************************************************************************)
(* Chunk sessions: initChunks, and the fragment requests that go through   *)
(* executeMulter and the chunk branch of self.actuallyUploadFiles.         *)
(***************************************************************************)
Sessions == 1..NumSessions
FragmentRequests == 1..NumFragmentRequests
Finalizers == 1..NumFinalizers
\* the indices the clients send, and the total chunk count they announce
ChunkIndexes == {0, 1}
TotalChunkCount == Cardinality(ChunkIndexes)
\* parseInt(config.uploads.maxSize), in MB
maxSize == 3
\* maxSize * 1e6; the model's megabyte has two bytes
maxSizeBytes == maxSize * 2
maxChunksCount == maxSize

\* chunksData[uuid] === undefined
NoSession == [present |-> FALSE, chunks |-> <<>>, size |-> 0]

\* { root, chunks: [], size: 0 }; root is path.join(paths.chunks, uuid)
NewSession == [present |-> TRUE, chunks |-> <<>>, size |-> 0]

NoDir == [exists |-> FALSE, files |-> <<>>]

IdleFragment == [pc |-> "idle", uuid |-> 0, name |-> <<>>, bytes |-> <<>>]

\* the tasks of finalize requests that iterate the array of session uuid
\* keep that array when chunksData[uuid] is deleted or assigned anew
KeepArrays(f, uuid) ==
  [q \in DOMAIN f |->
    [f[q] EXCEPT !.task =
      [k \in DOMAIN f[q].task |->
        IF f[q].task[k].attached /\ f[q].task[k].uuid = uuid
        THEN [f[q].task[k] EXCEPT !.attached = FALSE, !.arr = chunksData[uuid].chunks]
        ELSE f[q].task[k]]]]

\* chunksData[uuid] = { root, chunks: [], size: 0 }, whatever was there
RegisterSession(uuid) ==
  /\ chunksData' = [chunksData EXCEPT ![uuid] = NewSession]
  /\ fin' = KeepArrays(fin, uuid)

\* a request with one fragment arrives: executeMulter's destination calls
\* initChunks(uuid), which returns the root of a registered session at once
\* and otherwise awaits paths.access(root)
FragmentArrives(f) ==
  /\ frag[f].pc = "idle"
  /\ received < MaxFragments
  /\ received' = received + 1
  /\ \E uuid \in Sessions, chunkindex \in ChunkIndexes :
       frag' = [frag EXCEPT ![f] =
                  [pc |-> IF chunksData[uuid].present THEN "write" ELSE "access",
                   uuid |-> uuid,
                   name |-> ChunkFileName(TotalChunkCount, chunkindex),
                   bytes |-> Payload(chunkindex)]]
  /\ UNCHANGED <<chunksData, chunkDirs, fin, idSet, uploads, db, up>>
  /\ UNCHANGED otherThanChunks

\* initChunks: await paths.access(root) settles; on success the session is
\* registered, on ENOENT the directory is made first
InitChunksAccess(f) ==
  /\ frag[f].pc = "access"
  /\ IF chunkDirs[frag[f].uuid].exists
     THEN /\ RegisterSession(frag[f].uuid)
          /\ frag' = [frag EXCEPT ![f].pc = "write"]
     ELSE /\ frag' = [frag EXCEPT ![f].pc = "mkdir"]
          /\ UNCHANGED <<chunksData, fin>>
  /\ UNCHANGED <<chunkDirs, received, idSet, uploads, db, up>>
  /\ UNCHANGED otherThanChunks

\* initChunks: await paths.mkdir(root) settles; it fails when the directory
\* exists by now, and destination answers 'Could not process the chunked
\* upload'
InitChunksMkdir(f) ==
  /\ frag[f].pc = "mkdir"
  /\ IF chunkDirs[frag[f].uuid].exists
     THEN /\ frag' = [frag EXCEPT ![f] = IdleFragment]
          /\ UNCHANGED <<chunksData, chunkDirs, fin>>
     ELSE /\ chunkDirs' = [chunkDirs EXCEPT ![frag[f].uuid] = [exists |-> TRUE, files |-> <<>>]]
          /\ RegisterSession(frag[f].uuid)
          /\ frag' = [frag EXCEPT ![f].pc = "write"]
  /\ UNCHANGED <<received, idSet, uploads, db, up>>
  /\ UNCHANGED otherThanChunks

\* multer's disk storage writes the fragment into the session's directory
\* under the name storage.filename gave it; the write fails when the
\* directory is gone
WriteFragment(f) ==
  /\ frag[f].pc = "write"
  /\ IF chunkDirs[frag[f].uuid].exists
     THEN /\ chunkDirs' = [chunkDirs EXCEPT ![frag[f].uuid].files =
                             WriteFile(@, frag[f].name, frag[f].bytes)]
          /\ frag' = [frag EXCEPT ![f].pc = "stored"]
     ELSE /\ frag' = [frag EXCEPT ![f] = IdleFragment]
          /\ UNCHANGED chunkDirs
  /\ UNCHANGED <<chunksData, fin, received, idSet, uploads, db, up>>
  /\ UNCHANGED otherThanChunks

\* self.actuallyUploadFiles after multer: with the session registered the
\* fragment is recorded and the answer is success; otherwise the request
\* goes on as a plain upload of uploads/<fragment name>, a file that does
\* not exist, and fails in storeFilesToDb
RecordFragment(f) ==
  /\ frag[f].pc = "stored"
  /\ IF chunksData[frag[f].uuid].present
     THEN chunksData' = [chunksData EXCEPT
                           ![frag[f].uuid].chunks = Append(@, frag[f].name),
                           ![frag[f].uuid].size = @ + Len(frag[f].bytes)]
     ELSE UNCHANGED chunksData
  /\ frag' = [frag EXCEPT ![f] = IdleFragment]
  /\ UNCHANGED <<chunkDirs, fin, received, idSet, uploads, db, up>>
  /\ UNCHANGED otherThanChunks

(***************************************************************************)
(* self.finishChunks -> self.actuallyFinishChunks, self.combineChunks and  *)
(* self.cleanUpChunks, with no extension filter, no temporary uploads, no  *)
(* scanner and tag stripping off.  With identifiers cached the call of     *)
(* getUniqueRandomName has no await; otherwise every task awaits           *)
(* paths.access before it combines.                                        *)
(***************************************************************************)
NoTask ==
  [pc |-> "none", uuid |-> 0, name |-> NoName, size |-> 0, attached |-> FALSE,
   arr |-> <<>>, pos |-> 0, unl |-> <<>>, pending |-> 0, lstat |-> 0, error |-> "",
   i |-> 0, fragments |-> 0]

NoCleanUp == [pc |-> "none", unl |-> <<>>]

IdleFinalizer ==
  [pc |-> "idle", user |-> NULL, files |-> <<>>, task |-> <<>>, cleanup |-> <<>>,
   infoMap |-> <<>>, error |-> ""]

\* check(file): the session is unknown or holds fewer than 2 fragments
CheckFails(file) ==
  \/ ~chunksData[file.uuid].present
  \/ Len(chunksData[file.uuid].chunks) < 2

\* one task of files.map up to its first await on the disk: the chunk
\* count and size checks, the name, the write stream on the destination
\* and the first read of combineChunks.  Yields <<tasks, identifiers used>>
\* for the files from k on.
RECURSIVE StartTasks(_, _, _)
StartTasks(files, k, used) ==
  IF k > Len(files) THEN {[task |-> <<>>, used |-> used]}
  ELSE LET session == chunksData[files[k].uuid]
           rejected(error) == [NoTask EXCEPT !.pc = "rejected", !.uuid = files[k].uuid,
                                             !.error = error]
           outs == IF Len(session.chunks) > maxChunksCount
                   THEN {[t |-> rejected("Too many chunks."), used |-> used]}
                   ELSE IF session.size > maxSizeBytes
                   THEN {[t |-> rejected("File too large."), used |-> used]}
                   ELSE { IF out.ok
                          THEN [t |-> [NoTask EXCEPT !.pc = "read", !.uuid = files[k].uuid,
                                                     !.name = out.name, !.size = session.size,
                                                     !.attached = TRUE, !.pos = 1,
                                                     !.fragments = Len(session.chunks)],
                                used |-> used \cup {out.name.id}]
                          ELSE [t |-> rejected("Sorry, we could not allocate a unique random name. Try again?"),
                                used |-> used]
                          : out \in GetUniqueRandomNameCached(used, ".png") }
       IN UNION { { [task |-> <<o.t>> \o rest.task, used |-> rest.used]
                    : rest \in StartTasks(files, k + 1, o.used) } : o \in outs }

\* without the cache of identifiers: one task of files.map up to the
\* await of paths.access in getUniqueRandomName, on the name it drew
StartTaskAccess(file) ==
  LET session == chunksData[file.uuid]
      rejected(error) == [NoTask EXCEPT !.pc = "rejected", !.uuid = file.uuid,
                                        !.error = error]
  IN IF Len(session.chunks) > maxChunksCount THEN {rejected("Too many chunks.")}
     ELSE IF session.size > maxSizeBytes THEN {rejected("File too large.")}
     ELSE {[NoTask EXCEPT !.pc = "access", !.uuid = file.uuid, !.size = session.size,
                          !.name = FileName(identifier, ".png")]
             : identifier \in Identifiers}

\* createWriteStream(destination, { flags: 'a' }) of every task that got a name
RECURSIVE CreateDestinations(_, _)
CreateDestinations(dir, tasks) ==
  IF tasks = <<>> THEN dir
  ELSE CreateDestinations(
         IF Head(tasks).pc = "read" THEN WriteFile(dir, Head(tasks).name, <<>>) ELSE dir,
         Tail(tasks))

\* self.cleanUpChunks up to its first await: the unlinks of the fragments
\* listed now are issued; chunksData[uuid] undefined is a TypeError
StartCleanUp(data, uuid) ==
  IF data[uuid].present
  THEN [pc |-> "unlink", unl |-> data[uuid].chunks]
  ELSE [pc |-> "done", unl |-> <<>>]

\* the catch block of actuallyFinishChunks, entered by the first rejection:
\* cleanUpChunks for every file whose session is registered at that time
EnterCatch(fq, data, error) ==
  IF fq.pc \notin {"running", "persist"} THEN fq
  ELSE LET cleanup == [k \in DOMAIN fq.files |-> StartCleanUp(data, fq.files[k].uuid)]
       IN [fq EXCEPT !.error = error,
                     !.cleanup = cleanup,
                     !.pc = IF \A k \in DOMAIN cleanup : cleanup[k].pc = "done"
                            THEN "failed" ELSE "cleanup"]

FirstRejection(tasks) ==
  LET k == CHOOSE i \in DOMAIN tasks :
             tasks[i].pc = "rejected" /\ \A j \in 1..(i - 1) : tasks[j].pc # "rejected"
  IN tasks[k].error

FinalizeFiles ==
  UNION { [1..n -> [uuid : Sessions, declared : {2, 3}]] : n \in 1..MaxFinalizeFiles }

\* a finalize request arrives
FinishChunks(q) ==
  /\ fin[q].pc = "idle"
  /\ \E files \in FinalizeFiles, user \in {NULL} :
       IF \E k \in DOMAIN files : CheckFails(files[k])
       THEN /\ fin' = [fin EXCEPT ![q].pc = "failed",
                                  ![q].files = files,
                                  ![q].user = user,
                                  ![q].error = "An unexpected error occurred."]
            /\ UNCHANGED <<chunksData, idSet, uploads>>
       ELSE IF ~cacheFileIdentifiers
       THEN \E task \in [DOMAIN files -> UNION {StartTaskAccess(files[k]) : k \in DOMAIN files}] :
              /\ \A k \in DOMAIN files : task[k] \in StartTaskAccess(files[k])
              /\ LET fq == [fin[q] EXCEPT !.pc = "running", !.files = files, !.user = user,
                                          !.task = task,
                                          !.cleanup = [k \in DOMAIN files |-> NoCleanUp]]
                 IN fin' = [fin EXCEPT ![q] =
                              IF \E k \in DOMAIN files : task[k].pc = "rejected"
                              THEN EnterCatch(fq, chunksData, FirstRejection(task))
                              ELSE fq]
              /\ UNCHANGED <<chunksData, idSet, uploads>>
       ELSE \E st \in StartTasks(files, 1, idSet) :
              LET started == {files[k].uuid : k \in {i \in DOMAIN files : st.task[i].pc = "read"}}
                  sorted == [u \in Sessions |->
                               IF u \in started
                               THEN [chunksData[u] EXCEPT !.chunks = SortChunks(@)]
                               ELSE chunksData[u]]
                  fq == [fin[q] EXCEPT !.pc = "running", !.files = files, !.user = user,
                                       !.task = st.task,
                                       !.cleanup = [k \in DOMAIN files |-> NoCleanUp]]
              IN /\ idSet' = st.used
                 /\ uploads' = CreateDestinations(uploads, st.task)
                 /\ chunksData' = sorted
                 /\ fin' = [fin EXCEPT ![q] =
                              IF \E k \in DOMAIN files : st.task[k].pc = "rejected"
                              THEN EnterCatch(fq, sorted, FirstRejection(st.task))
                              ELSE fq]
  /\ UNCHANGED <<chunkDirs, frag, received, db, up>>
  /\ UNCHANGED otherThanChunks

\* the unlinks cleanUpChunks issued, all of them: Promise.all rejects when
\* one of the names is not there (any more)
UnlinkAll(dir, unl) ==
  [ok |-> /\ dir.exists
          /\ \A i \in DOMAIN unl : unl[i] \in DOMAIN dir.files
          /\ \A i, j \in DOMAIN unl : unl[i] = unl[j] => i = j,
   dir |-> [dir EXCEPT !.files = [n \in (DOMAIN dir.files) \ Range(unl) |-> dir.files[n]]]]

\* paths.rmdir(root): the directory must be there and empty
RmdirSucceeds(dir) == dir.exists /\ DOMAIN dir.files = {}

\* the size check after lstat
SizeMismatchIgnored(lstatSize, fileSize) == TRUE

\* lstat.size !== file.size throws 'Chunks size mismatched.'
SizeMatches(lstatSize, fileSize) == lstatSize = fileSize

\* a task of request q was rejected: Promise.all rejects with the first
\* rejection, which enters the catch block
Rejected(f, q, k, error, data) ==
  LET fq == [f[q] EXCEPT !.task[k] = [NoTask EXCEPT !.pc = "rejected",
                                                    !.uuid = f[q].task[k].uuid,
                                                    !.name = f[q].task[k].name,
                                                    !.size = f[q].task[k].size,
                                                    !.lstat = f[q].task[k].lstat,
                                                    !.fragments = f[q].task[k].fragments,
                                                    !.error = error]]
  IN [f EXCEPT ![q] = EnterCatch(fq, data, error)]

\* without the cache of identifiers: paths.access settles.  A name in use
\* sends the loop of getUniqueRandomName to its next iteration; on ENOENT
\* the task has its name and calls combineChunks, which opens the write
\* stream on the destination, sorts the fragments the session holds by
\* now and reads the first of them; a session deleted by now is a
\* TypeError
NameAccess(q, k) ==
  /\ k \in DOMAIN fin[q].task
  /\ fin[q].task[k].pc = "access"
  /\ LET t == fin[q].task[k]
         session == chunksData[t.uuid]
     IN \/ /\ t.name \in DOMAIN uploads
           /\ IF t.i + 1 < idMaxTries
              THEN \E identifier \in Identifiers :
                     fin' = [fin EXCEPT ![q].task[k].i = t.i + 1,
                                        ![q].task[k].name = FileName(identifier, ".png")]
              ELSE fin' = Rejected([fin EXCEPT ![q].task[k].name = NoName], q, k,
                                   "Sorry, we could not allocate a unique random name. Try again?",
                                   chunksData)
           /\ UNCHANGED <<chunksData, uploads>>
        \/ /\ t.name \notin DOMAIN uploads
           /\ ~RethrowsAccessError("ENOENT")
           /\ uploads' = WriteFile(uploads, t.name, <<>>)
           /\ IF ~session.present
              THEN /\ fin' = Rejected(fin, q, k, "TypeError", chunksData)
                   /\ UNCHANGED chunksData
              ELSE /\ chunksData' = [chunksData EXCEPT ![t.uuid].chunks = SortChunks(@)]
                   /\ fin' = [fin EXCEPT ![q].task[k] =
                                IF session.chunks = <<>>
                                THEN [t EXCEPT !.pc = "unlink",
                                               !.fragments = Len(session.chunks)]
                                ELSE [t EXCEPT !.pc = "read", !.attached = TRUE, !.pos = 1,
                                               !.fragments = Len(session.chunks)]]
  /\ UNCHANGED <<chunkDirs, frag, received, idSet, db, up>>
  /\ UNCHANGED otherThanChunks

\* combineChunks: the read stream of the fragment at pos ends or fails; on
\* its end the loop goes to the next name of the array, and after the last
\* one the task calls cleanUpChunks
FinishRead(q, k) ==
  /\ k \in DOMAIN fin[q].task
  /\ fin[q].task[k].pc = "read"
  /\ LET t == fin[q].task[k]
         array == IF t.attached THEN chunksData[t.uuid].chunks ELSE t.arr
         chunk == array[t.pos]
         dir == chunkDirs[t.uuid]
     IN IF dir.exists /\ chunk \in DOMAIN dir.files
        THEN /\ uploads' = WriteFile(uploads, t.name, uploads[t.name] \o dir.files[chunk])
             /\ fin' = IF t.pos < Len(array)
                       THEN IF chunksData[t.uuid].present
                            THEN [fin EXCEPT ![q].task[k].pos = t.pos + 1,
                                             ![q].task[k].pending = Len(dir.files[chunk])]
                            ELSE Rejected(fin, q, k, "TypeError", chunksData)
                       ELSE [fin EXCEPT ![q].task[k] =
                               [t EXCEPT !.pc = IF chunksData[t.uuid].present
                                                THEN "unlink" ELSE "lstat",
                                         !.attached = FALSE,
                                         !.arr = <<>>,
                                         !.pos = 0,
                                         !.pending = Len(dir.files[chunk]),
                                         !.unl = StartCleanUp(chunksData, t.uuid).unl]]
        ELSE /\ fin' = Rejected(fin, q, k, "ENOENT", chunksData)
             /\ UNCHANGED uploads
  /\ UNCHANGED <<chunksData, chunkDirs, frag, received, idSet, db, up>>
  /\ UNCHANGED otherThanChunks

\* cleanUpChunks called by the task: the unlinks settle; a failure is
\* logged and the task goes on to lstat; otherwise rmdir is issued, unless
\* chunksData[uuid] is undefined by now (a TypeError, logged too)
TaskUnlinks(q, k) ==
  /\ k \in DOMAIN fin[q].task
  /\ fin[q].task[k].pc = "unlink"
  /\ LET t == fin[q].task[k]
         res == UnlinkAll(chunkDirs[t.uuid], t.unl)
     IN /\ chunkDirs' = [chunkDirs EXCEPT ![t.uuid] = res.dir]
        /\ fin' = [fin EXCEPT ![q].task[k].unl = <<>>,
                              ![q].task[k].pc = IF res.ok /\ chunksData[t.uuid].present
                                                THEN "rmdir" ELSE "lstat"]
  /\ UNCHANGED <<chunksData, frag, received, idSet, uploads, db, up>>
  /\ UNCHANGED otherThanChunks

\* an eviction that empties the whole store
RemoveEverySession(f, uuid) ==
  IF RmdirSucceeds(chunkDirs[uuid])
  THEN /\ chunkDirs' = [chunkDirs EXCEPT ![uuid] = NoDir]
       /\ chunksData' = [u \in Sessions |-> NoSession]
       /\ fin' = KeepArrays(f, uuid)
  ELSE /\ fin' = f
       /\ UNCHANGED <<chunkDirs, chunksData>>

\* rmdir settles; when it succeeded chunksData[uuid] is deleted
RemoveSession(f, uuid) ==
  IF RmdirSucceeds(chunkDirs[uuid])
  THEN /\ chunkDirs' = [chunkDirs EXCEPT ![uuid] = NoDir]
       /\ chunksData' = [chunksData EXCEPT ![uuid] = NoSession]
       /\ fin' = KeepArrays(f, uuid)
  ELSE /\ fin' = f
       /\ UNCHANGED <<chunkDirs, chunksData>>

TaskRmdir(q, k) ==
  /\ k \in DOMAIN fin[q].task
  /\ fin[q].task[k].pc = "rmdir"
  /\ RemoveSession([fin EXCEPT ![q].task[k].pc = "lstat"], fin[q].task[k].uuid)
  /\ UNCHANGED <<frag, received, idSet, uploads, db, up>>
  /\ UNCHANGED otherThanChunks

\* the infoMap entry of a combined file
InfoOf(t) == Info(t.name, t.size, NULL, NoAge)

\* the sizes paths.lstat(destination) may report: combineChunks ends the
\* write stream without waiting for it, so the bytes piped from the last
\* fragment are on the disk or still in the stream's buffer
LstatSizes(t) == {Len(uploads[t.name]), Len(uploads[t.name]) - t.pending}

\* paths.lstat(destination) settles: a size other than file.size rejects
\* the task; otherwise the file joins infoMap, and when it was the last
\* task storeFilesToDb starts
TaskLstat(q, k) ==
  /\ k \in DOMAIN fin[q].task
  /\ fin[q].task[k].pc = "lstat"
  /\ \E size \in LstatSizes(fin[q].task[k]) :
     LET t == [fin[q].task[k] EXCEPT !.lstat = size, !.pending = 0]
     IN IF SizeMatches(t.lstat, t.size)
        THEN LET infoMap == Append(fin[q].infoMap, InfoOf(t))
                 last == /\ fin[q].pc = "running"
                         /\ \A j \in DOMAIN fin[q].task : j # k => fin[q].task[j].pc = "done"
             IN /\ fin' = [fin EXCEPT ![q].task[k] = [t EXCEPT !.pc = "done"],
                                      ![q].infoMap = infoMap,
                                      ![q].pc = IF last THEN "persist" ELSE @]
                /\ up' = IF last
                         THEN [up EXCEPT ![q] =
                                 [IdleUpload EXCEPT !.pc = "tasks",
                                                    !.user = fin[q].user,
                                                    !.infoMap = infoMap,
                                                    !.task = [j \in DOMAIN infoMap |-> "lookup"]]]
                         ELSE up
        ELSE /\ fin' = Rejected([fin EXCEPT ![q].task[k] = t], q, k,
                                "Chunks size mismatched.", chunksData)
             /\ UNCHANGED up
  /\ UNCHANGED <<chunksData, chunkDirs, frag, received, idSet, uploads, db>>
  /\ UNCHANGED otherThanChunks

\* the catch block is over when every cleanUpChunks it called has settled:
\* the error is thrown again and finishChunks answers success: false
CatchSettles(fq) ==
  IF \A k \in DOMAIN fq.cleanup : fq.cleanup[k].pc = "done"
  THEN [fq EXCEPT !.pc = "failed"] ELSE fq

\* cleanUpChunks called by the catch block: the unlinks settle
CatchUnlinks(q, k) ==
  /\ fin[q].pc = "cleanup"
  /\ k \in DOMAIN fin[q].cleanup
  /\ fin[q].cleanup[k].pc = "unlink"
  /\ LET uuid == fin[q].files[k].uuid
         res == UnlinkAll(chunkDirs[uuid], fin[q].cleanup[k].unl)
     IN /\ chunkDirs' = [chunkDirs EXCEPT ![uuid] = res.dir]
        /\ fin' = [fin EXCEPT ![q] = CatchSettles(
                     [fin[q] EXCEPT !.cleanup[k] =
                        [pc |-> IF res.ok /\ chunksData[uuid].present THEN "rmdir" ELSE "done",
                         unl |-> <<>>]])]
  /\ UNCHANGED <<chunksData, frag, received, idSet, uploads, db, up>>
  /\ UNCHANGED otherThanChunks

\* cleanUpChunks called by the catch block: rmdir settles
CatchRmdir(q, k) ==
  /\ fin[q].pc = "cleanup"
  /\ k \in DOMAIN fin[q].cleanup
  /\ fin[q].cleanup[k].pc = "rmdir"
  /\ RemoveSession([fin EXCEPT ![q] = CatchSettles([fin[q] EXCEPT !.cleanup[k].pc = "done"])],
                   fin[q].files[k].uuid)
  /\ UNCHANGED <<frag, received, idSet, uploads, db, up>>
  /\ UNCHANGED otherThanChunks

\* storeFilesToDb returned: sendUploadResponse
FinishResponds(q) ==
  /\ fin[q].pc = "persist"
  /\ up[q].pc = "done"
  /\ fin' = [fin EXCEPT ![q].pc = "done"]
  /\ UNCHANGED <<chunksData, chunkDirs, frag, received, idSet, uploads, db, up>>
  /\ UNCHANGED otherThanChunks

\* storeFilesToDb threw: the catch block
FinishPersistFailed(q) ==
  /\ fin[q].pc = "persist"
  /\ up[q].pc = "failed"
  /\ fin' = [fin EXCEPT ![q] = EnterCatch(fin[q], chunksData, "insert failed")]
  /\ UNCHANGED <<chunksData, chunkDirs, frag, received, idSet, uploads, db, up>>
  /\ UNCHANGED otherThanChunks

\* a file stored by an earlier anonymous upload, and its row
PriorName == FileName(1, ".png")
PriorBytes == <<0, 1, 1>>
PriorRow == NewRow(Info(PriorName, Len(PriorBytes), NULL, NoAge), md5(PriorBytes), NULL, Epoch)

InitChunks ==
  /\ cacheFileIdentifiers = TRUE
  /\ \E prior \in BOOLEAN :
       /\ idSet = IF prior THEN {PriorName.id} ELSE {}
       /\ uploads = IF prior THEN WriteFile(<<>>, PriorName, PriorBytes) ELSE <<>>
       /\ db = IF prior THEN <<PriorRow>> ELSE <<>>
  /\ callers = <<>>
  /\ up = [q \in Finalizers |-> IdleUpload]
  /\ re = <<>>
  /\ chunksData = [u \in Sessions |-> NoSession]
  /\ chunkDirs = [u \in Sessions |-> NoDir]
  /\ frag = [f \in FragmentRequests |-> IdleFragment]
  /\ received = 0
  /\ fin = [q \in Finalizers |-> IdleFinalizer]
  /\ url = <<>>
  /\ now = Epoch
  /\ temporaryUploadAges = <<>>
  /\ clamd = NoScanner
  /\ filterEmptyFile = FALSE
  /\ call = <<>>
  /\ ls = <<>>

NextChunks ==
  \/ \E f \in FragmentRequests :
       \/ FragmentArrives(f)
       \/ InitChunksAccess(f)
       \/ InitChunksMkdir(f)
       \/ WriteFragment(f)
       \/ RecordFragment(f)
  \/ \E q \in Finalizers :
       \/ FinishChunks(q)
       \/ \E k \in 1..MaxFinalizeFiles :
            \/ FinishRead(q, k)
            \/ TaskUnlinks(q, k)
            \/ TaskRmdir(q, k)
            \/ TaskLstat(q, k)
            \/ CatchUnlinks(q, k)
            \/ CatchRmdir(q, k)
            \/ StoreLookup(q, k)
            \/ StoreUnlinkDuplicate(q, k)
       \/ StoreInsert(q)
       \/ FinishResponds(q)
       \/ FinishPersistFailed(q)

SpecChunks == InitChunks /\ [][NextChunks]_vars

\* session 1 after its fragments 0 and 1 have arrived one after the other
TwoFragments ==
  [names |-> [i \in 1..2 |-> ChunkFileName(TotalChunkCount, i - 1)],
   size |-> Len(Payload(0)) + Len(Payload(1)),
   files |-> WriteFile(WriteFile(<<>>, ChunkFileName(TotalChunkCount, 0), Payload(0)),
                       ChunkFileName(TotalChunkCount, 1), Payload(1))]

\* the same with config.uploads.cacheFileIdentifiers off, from the arrival
\* of the first two fragments on
InitChunksFiles ==
  /\ cacheFileIdentifiers = FALSE
  /\ \E prior \in BOOLEAN :
       /\ idSet = {}
       /\ uploads = IF prior THEN WriteFile(<<>>, PriorName, PriorBytes) ELSE <<>>
       /\ db = IF prior THEN <<PriorRow>> ELSE <<>>
  /\ callers = <<>>
  /\ up = [q \in Finalizers |-> IdleUpload]
  /\ re = <<>>
  /\ chunksData = [u \in Sessions |->
                     IF u = 1 THEN [present |-> TRUE, chunks |-> TwoFragments.names,
                                    size |-> TwoFragments.size]
                     ELSE NoSession]
  /\ chunkDirs = [u \in Sessions |->
                    IF u = 1 THEN [exists |-> TRUE, files |-> TwoFragments.files] ELSE NoDir]
  /\ frag = [f \in FragmentRequests |-> IdleFragment]
  /\ received = 2
  /\ fin = [q \in Finalizers |-> IdleFinalizer]
  /\ url = <<>>
  /\ now = Epoch
  /\ temporaryUploadAges = <<>>
  /\ clamd = NoScanner
  /\ filterEmptyFile = FALSE
  /\ call = <<>>
  /\ ls = <<>>

NextChunksFiles ==
  \/ NextChunks
  \/ \E q \in Finalizers : \E k \in 1..MaxFinalizeFiles : NameAccess(q, k)

SpecChunksFiles == InitChunksFiles /\ [][NextChunksFiles]_vars

\* a step of fragment request f in which initChunks assigns chunksData[uuid]
InitChunksAssigns(f) ==
  /\ frag[f].pc \in {"access", "mkdir"}
  /\ frag'[f].pc = "write"

\* C5: a chunk session is created at most once per session id: initChunks
\* never assigns chunksData[uuid] while a session is registered under uuid,
\* so the fragments and the size recorded for it are never reset
C5_SessionCreatedOnce ==
  [][\A f \in FragmentRequests :
       InitChunksAssigns(f) => ~chunksData[frag[f].uuid].present]_vars

\* no request is at work on session u: no fragment request for it is in
\* flight and no finalize request has been made
Quiescent(u) ==
  /\ \A f \in FragmentRequests : frag[f].pc # "idle" => frag[f].uuid # u
  /\ \A q \in Finalizers : fin[q].pc = "idle"

\* the bytes of the fragment files in the directory of session u
BytesOnDisk(u) == SumLen(chunkDirs[u].files, DOMAIN chunkDirs[u].files)

\* C6: the size tracked for a chunk session equals the sum of the sizes of
\* the fragment files in the session's directory, in every state in which
\* no request is at work on the session
C6_SizeIsBytesOnDisk ==
  \A u \in Sessions :
    (chunksData[u].present /\ Quiescent(u)) => chunksData[u].size = BytesOnDisk(u)

\* C7 as stated: a finalize that succeeded found, for each of its files, the
\* size of the combined file equal to the tracked size and to the size the
\* client declared in the request
C7_DeclaredSizeChecked ==
  \A q \in Finalizers :
    fin[q].pc = "done" =>
      \A k \in DOMAIN fin[q].task :
        /\ fin[q].task[k].lstat = fin[q].task[k].size
        /\ fin[q].task[k].lstat = fin[q].files[k].declared

\* the names under which request q stored combined files
DestinationsOf(q) ==
  {fin[q].task[k].name : k \in DOMAIN fin[q].task} \ {NoName}

\* C7, amended: a file of a finalize request passes only if the size lstat
\* reports for the combined file equals the size tracked for the session
\* when the request started; a file for which they differ is rejected with
\* the size-mismatch error, the request fails and none of its files has a row
C7_TrackedSizeChecked ==
  \A q \in Finalizers :
    /\ \A k \in DOMAIN fin[q].task :
         /\ fin[q].task[k].pc = "done" => fin[q].task[k].lstat = fin[q].task[k].size
         /\ fin[q].task[k].error = "Chunks size mismatched." =>
              /\ fin[q].task[k].pc = "rejected"
              /\ fin[q].task[k].lstat # fin[q].task[k].size
              /\ fin[q].pc \in {"cleanup", "failed"}
              /\ \A i \in DOMAIN db : db[i].name \notin DestinationsOf(q)
    /\ fin[q].pc \in {"persist", "done"} =>
         \A k \in DOMAIN fin[q].task : fin[q].task[k].pc = "done"

\* a fragment recorded while the file was being combined made the combined
\* file larger than the tracked size, and the request has failed
C7_Witness ==
  \E q \in Finalizers :
    /\ fin[q].pc = "failed"
    /\ fin[q].error = "Chunks size mismatched."
    /\ \E k \in DOMAIN fin[q].task :
         /\ fin[q].task[k].error = "Chunks size mismatched."
         /\ fin[q].task[k].lstat > fin[q].task[k].size

\* finalize request q ends in this step
RequestEnds(q) ==
  /\ fin[q].pc \notin {"done", "failed"}
  /\ fin'[q].pc \in {"done", "failed"}

\* C8: when a finalize request ends, with success or with a failure at any
\* step, none of the sessions it names is in the chunk session store
C8_SessionEvictedAtEnd ==
  [][\A q \in Finalizers :
       RequestEnds(q) =>
         \A k \in DOMAIN fin'[q].files : ~chunksData'[fin'[q].files[k].uuid].present]_vars

\* C9: when a finalize request ends in failure, none of the combined files
\* it wrote is in the uploads directory
C9_NoFileLeftOnFailure ==
  [][\A q \in Finalizers :
       (RequestEnds(q) /\ fin'[q].pc = "failed") =>
         \A k \in DOMAIN fin'[q].task : fin'[q].task[k].name \notin DOMAIN uploads']_vars

\* a finalize request has read the size of session u and is combining it
Finalizing(u) ==
  \E q \in Finalizers : \E k \in DOMAIN fin[q].task :
    fin[q].task[k].uuid = u /\ fin[q].task[k].pc = "read"

\* the chunk branch of actuallyUploadFiles runs for fragment request f
FragmentRecorded(f) == frag[f].pc = "stored" /\ frag'[f].pc = "idle"

\* C24: while a finalize request is combining a session, a fragment that
\* arrives for it changes neither the session's fragment list nor its
\* size; and a fragment for a session that is not registered is not stored
\* as an upload of its own
C24_FinalizingIsClosed ==
  [][\A f \in FragmentRequests :
       FragmentRecorded(f) =>
         /\ Finalizing(frag[f].uuid) =>
              chunksData'[frag[f].uuid] = chunksData[frag[f].uuid]
         /\ ~chunksData[frag[f].uuid].present => uploads' = uploads /\ db' = db]_vars

\* the entries of finalize requests that ended with success and whose
\* combined file of session u is in the uploads directory
CombinedOf(u) ==
  {e \in Finalizers \X (1..MaxFinalizeFiles) :
     /\ fin[e[1]].pc = "done"
     /\ e[2] \in DOMAIN fin[e[1]].task
     /\ fin[e[1]].task[e[2]].uuid = u
     /\ fin[e[1]].task[e[2]].name \in DOMAIN uploads}

\* C25: of the entries of finalize requests that name one session, at most
\* one ends with a combined file in the uploads directory and a success
\* response
C25_CombinedAtMostOnce ==
  \A u \in Sessions : Cardinality(CombinedOf(u)) <= 1

\* the sessions a step is about: those of the fragment requests and of the
\* finalize requests that take the step
SessionsOfStep ==
  {frag[f].uuid : f \in {g \in FragmentRequests : frag'[g] # frag[g]}}
  \cup {frag'[f].uuid : f \in {g \in FragmentRequests : frag'[g] # frag[g]}}
  \cup UNION {{fin'[q].files[k].uuid : k \in DOMAIN fin'[q].files}
               : q \in {p \in Finalizers : fin'[p] # fin[p]}}

\* C28: a step of a fragment request or of a finalize request leaves every
\* session it does not name as it was: registered or not, with the same
\* fragment list and size, and the same directory
C28_OtherSessionsUnchanged ==
  [][\A u \in Sessions :
       u \notin SessionsOfStep =>
         chunksData'[u] = chunksData[u] /\ chunkDirs'[u] = chunkDirs[u]]_vars

\* a finalize request that names session 1 only has succeeded and session
\* 1 is evicted, while session 2 is registered with a fragment recorded
C28_Witness ==
  \E q \in Finalizers :
    /\ fin[q].pc = "done"
    /\ \A k \in DOMAIN fin[q].files : fin[q].files[k].uuid = 1
    /\ ~chunksData[1].present
    /\ chunksData[2].present /\ Len(chunksData[2].chunks) = 1

(***************************************************************************)
(* self.actuallyUploadUrls, with identifiers cached, no scanner and no URL *)
(* proxy.                                                                  *)
(***************************************************************************)
UrlRequests == 1..NumUrlRequests

\* parseInt(config.uploads.urlMaxSize) * 1e6, the size option of fetch
urlMaxSizeBytes == 2

\* what one URL of a request leads to: whether its extension is filtered,
\* the status the server answers with, and the body it sends
UrlInputs ==
  {[filtered |-> TRUE, status |-> 200, body |-> <<0>>],
   [filtered |-> FALSE, status |-> 404, body |-> <<0>>],
   [filtered |-> FALSE, status |-> 200, body |-> <<0>>],
   [filtered |-> FALSE, status |-> 200, body |-> <<0, 1>>],
   [filtered |-> FALSE, status |-> 200, body |-> <<0, 1, 2>>]}

UrlBatches == UNION { [1..n -> UrlInputs] : n \in 1..MaxUrls }

NoUrlTask == [pc |-> "none", name |-> NoName, error |-> ""]

IdleUrlRequest ==
  [pc |-> "idle", user |-> NULL, urls |-> <<>>, task |-> <<>>, downloaded |-> <<>>,
   unl |-> <<>>, infoMap |-> <<>>, error |-> ""]

\* the task of URL k threw: Promise.all rejects with the first rejection
\* and the catch block issues the unlinks of the files in downloaded at that
\* time; with none it throws the error again at once
UrlRejected(rq, k, error) ==
  LET rejected == [rq EXCEPT !.task[k].pc = "rejected", !.task[k].error = error]
  IN IF rq.pc # "running" THEN rejected
     ELSE [rejected EXCEPT !.error = error,
                           !.unl = rq.downloaded,
                           !.pc = IF rq.downloaded # <<>> THEN "unlinking" ELSE "failed"]

\* the first of the tasks that threw before its first await
FirstFiltered(urls) ==
  CHOOSE k \in DOMAIN urls : urls[k].filtered /\ \A j \in 1..(k - 1) : ~urls[j].filtered

\* a request with urls arrives: every task runs up to its fetch, or throws
\* because the extension of its URL is filtered
UploadUrls(r) ==
  /\ url[r].pc = "idle"
  /\ \A q \in UrlRequests : q < r => url[q].pc # "idle"
  /\ \E urls \in UrlBatches :
       LET rq == [IdleUrlRequest EXCEPT
                    !.pc = "running",
                    !.urls = urls,
                    !.task = [k \in DOMAIN urls |->
                                [NoUrlTask EXCEPT !.pc = IF urls[k].filtered
                                                        THEN "rejected" ELSE "fetch"]]]
       IN url' = [url EXCEPT ![r] =
                    IF \E k \in DOMAIN urls : urls[k].filtered
                    THEN UrlRejected(rq, FirstFiltered(urls), "files are not permitted.")
                    ELSE rq]
  /\ UNCHANGED <<idSet, uploads, db, up>>
  /\ UNCHANGED otherThanUrls

\* await fetch(url, { size: urlMaxSizeBytes }) settles
UrlFetchSettles(r, k) ==
  /\ k \in DOMAIN url[r].task
  /\ url[r].task[k].pc = "fetch"
  /\ url' = [url EXCEPT ![r] =
               IF url[r].urls[k].status # 200
               THEN UrlRejected(url[r], k, "status")
               ELSE [url[r] EXCEPT !.task[k].pc = "buffer"]]
  /\ UNCHANGED <<idSet, uploads, db, up>>
  /\ UNCHANGED otherThanUrls

\* await fetchFile.buffer() settles: a body over the size cap rejects;
\* otherwise the name is allocated and writeFile is issued
UrlBufferSettles(r, k) ==
  /\ k \in DOMAIN url[r].task
  /\ url[r].task[k].pc = "buffer"
  /\ IF Len(url[r].urls[k].body) > urlMaxSizeBytes
     THEN /\ url' = [url EXCEPT ![r] = UrlRejected(url[r], k, "over limit")]
          /\ UNCHANGED idSet
     ELSE \E out \in GetUniqueRandomNameCached(idSet, ".png") :
            IF out.ok
            THEN /\ idSet' = idSet \cup {out.name.id}
                 /\ url' = [url EXCEPT ![r].task[k].pc = "write",
                                       ![r].task[k].name = out.name]
            ELSE /\ url' = [url EXCEPT ![r] =
                     UrlRejected(url[r], k,
                                 "Sorry, we could not allocate a unique random name. Try again?")]
                 /\ UNCHANGED idSet
  /\ UNCHANGED <<uploads, db, up>>
  /\ UNCHANGED otherThanUrls

\* await paths.writeFile(destination, file) settles: the file joins
\* downloaded and infoMap; after the last task downloaded is emptied and
\* storeFilesToDb starts
UrlWriteSettles(r, k) ==
  /\ k \in DOMAIN url[r].task
  /\ url[r].task[k].pc = "write"
  /\ LET t == url[r].task[k]
         body == url[r].urls[k].body
         infoMap == Append(url[r].infoMap, Info(t.name, Len(body), NULL, NoAge))
         last == /\ url[r].pc = "running"
                 /\ \A j \in DOMAIN url[r].task : j # k => url[r].task[j].pc = "done"
     IN /\ uploads' = WriteFile(uploads, t.name, body)
        /\ url' = [url EXCEPT ![r].task[k].pc = "done",
                              ![r].infoMap = infoMap,
                              ![r].downloaded = IF last THEN <<>> ELSE Append(@, t.name),
                              ![r].pc = IF last THEN "persist" ELSE @]
        /\ up' = IF last
                 THEN [up EXCEPT ![r] =
                         [IdleUpload EXCEPT !.pc = "tasks",
                                            !.user = url[r].user,
                                            !.infoMap = infoMap,
                                            !.task = [j \in DOMAIN infoMap |-> "lookup"]]]
                 ELSE up
  /\ UNCHANGED <<idSet, db>>
  /\ UNCHANGED otherThanUrls

\* downloaded.map(file => utils.unlinkFile(file).catch(logger.error))
RECURSIVE UnlinkDownloaded(_, _)
UnlinkDownloaded(dir, downloaded) ==
  IF downloaded = <<>> THEN dir
  ELSE UnlinkDownloaded(UnlinkFile(dir, Head(downloaded)), Tail(downloaded))

\* the unlinks of the catch block settle, and the error is thrown again
UrlCatchUnlinks(r) ==
  /\ url[r].pc = "unlinking"
  /\ uploads' = UnlinkDownloaded(uploads, url[r].unl)
  /\ url' = [url EXCEPT ![r].pc = "failed", ![r].unl = <<>>]
  /\ UNCHANGED <<idSet, db, up>>
  /\ UNCHANGED otherThanUrls

\* storeFilesToDb returned: sendUploadResponse
UrlResponds(r) ==
  /\ url[r].pc = "persist"
  /\ up[r].pc = "done"
  /\ url' = [url EXCEPT ![r].pc = "done"]
  /\ UNCHANGED <<idSet, uploads, db, up>>
  /\ UNCHANGED otherThanUrls

\* storeFilesToDb threw: the catch block finds downloaded empty
UrlPersistFailed(r) ==
  /\ url[r].pc = "persist"
  /\ up[r].pc = "failed"
  /\ url' = [url EXCEPT ![r].pc = "failed", ![r].error = "insert failed"]
  /\ UNCHANGED <<idSet, uploads, db, up>>
  /\ UNCHANGED otherThanUrls

InitUrls ==
  /\ cacheFileIdentifiers = TRUE
  /\ idSet = {}
  /\ uploads = <<>>
  /\ callers = <<>>
  /\ db = <<>>
  /\ up = [r \in UrlRequests |-> IdleUpload]
  /\ re = <<>>
  /\ chunksData = <<>>
  /\ chunkDirs = <<>>
  /\ frag = <<>>
  /\ received = 0
  /\ fin = <<>>
  /\ url = [r \in UrlRequests |-> IdleUrlRequest]
  /\ now = Epoch
  /\ temporaryUploadAges = <<>>
  /\ clamd = NoScanner
  /\ filterEmptyFile = FALSE
  /\ call = <<>>
  /\ ls = <<>>

NextUrls ==
  \E r \in UrlRequests :
    \/ UploadUrls(r)
    \/ \E k \in 1..MaxUrls :
         \/ UrlFetchSettles(r, k)
         \/ UrlBufferSettles(r, k)
         \/ UrlWriteSettles(r, k)
         \/ StoreLookup(r, k)
         \/ StoreUnlinkDuplicate(r, k)
    \/ UrlCatchUnlinks(r)
    \/ StoreInsert(r)
    \/ UrlResponds(r)
    \/ UrlPersistFailed(r)

SpecUrls == InitUrls /\ [][NextUrls]_vars

\* every task of request r has settled
AllFetchesFinished(r) ==
  \A k \in DOMAIN url[r].task : url[r].task[k].pc \in {"done", "rejected"}

\* C10: when one URL of a batch failed, the request fails, no row of the
\* batch is persisted, and once every fetch of the batch has finished none
\* of the files the batch downloaded is in the uploads directory
C10_NoDownloadLeft ==
  \A r \in UrlRequests :
    (\E k \in DOMAIN url[r].task : url[r].task[k].pc = "rejected") =>
      /\ url[r].pc \in {"unlinking", "failed"}
      /\ \A k \in DOMAIN url[r].task, i \in DOMAIN db : db[i].name # url[r].task[k].name
      /\ (url[r].pc = "failed" /\ AllFetchesFinished(r)) =>
           \A k \in DOMAIN url[r].task : url[r].task[k].name \notin DOMAIN uploads

\* C17: a finalize request that names a session which is unknown or holds
\* fewer than 2 fragments is rejected with no file combined and nothing
\* persisted, and every task that opened a destination and combined into
\* it did so for a session that held at least 2 fragments
C17_AtLeastTwoFragments ==
  \A q \in Finalizers :
    /\ fin[q].error = "An unexpected error occurred." =>
         fin[q].pc = "failed" /\ fin[q].task = <<>> /\ up[q].pc = "idle"
    /\ \A k \in DOMAIN fin[q].task :
         fin[q].task[k].name # NoName /\ fin[q].task[k].pc # "access" =>
           fin[q].task[k].fragments >= 2

(***************************************************************************)
(* The metadata of the records: the album id and the age from self.upload  *)
(* (file and URL batches) and from self.actuallyFinishChunks, through      *)
(* self.storeFilesToDb to the row and the response.  The files are stored  *)
(* as in the parts above; identifiers are cached, and the requests of a    *)
(* run come one after the other.                                           *)
(***************************************************************************)
Users == {1, 2}
\* who sends the requests: nobody known (user is undefined), or user 1
Requesters == {NULL, 1}

\* what a client sends as age, and as album id
AgeHeaders == {Undefined, Str(<<"0">>), Str(<<"2">>), Str(<<"2", "4">>),
               Str(<<"2", "4", "x">>)}
AlbumHeaders == {Undefined, Str(<<"1">>), Str(<<"2">>)}

\* the allow-sets a deployment may configure: none (temporary uploads are
\* disabled), one with the age 0 (permanent), one without
AllowSets == {<<>>, <<0, 1, 24>>, <<1, 24>>}

\* the batches of one request
RecordBatches == {<<c>> : c \in FileContents} \cup {<<<<0>>, <<0, 1>>>>}

\* temporaryUploads: Array.isArray(ages) && ages.length
TemporaryUploads(ages) == ages # <<>>

\* parseInt(albumid), null for NaN
ParseAlbumId(v) == IF parseFloat(v) = NaN THEN NULL ELSE parseFloat(v)

\* !age && !config.uploads.temporaryUploadAges.includes(0)
PermanentNotPermitted(ages, age) == ~Truthy(age) /\ ~Includes(ages, 0)

\* the prepared files with the album id and the ages they are given
WithMetadata(infos, albumids, ages) ==
  [k \in DOMAIN infos |-> Info(infos[k].filename, infos[k].size, albumids[k], ages[k])]

\* the prepared files are written and storeFilesToDb starts; the request
\* fails when no name could be allocated
Prepare(r, user, path, batch, ageHeaders, albumids, ages) ==
  \E m \in MulterStore(batch, <<>>, idSet, uploads) :
    /\ idSet' = m.used
    /\ uploads' = IF m.ok THEN m.dir ELSE RemoveAll(m.dir, m.infos)
    /\ up' = [up EXCEPT ![r] =
                [IdleUpload EXCEPT
                   !.pc = IF m.ok THEN "tasks" ELSE "failed",
                   !.user = user, !.path = path, !.batch = batch,
                   !.ages = ageHeaders, !.albumids = albumids,
                   !.infoMap = IF m.ok THEN WithMetadata(m.infos, albumids, ages) ELSE <<>>,
                   !.task = IF m.ok THEN [k \in DOMAIN batch |-> "lookup"] ELSE <<>>]]

\* self.upload with a batch of files or URLs: the album id and the age of
\* the request go to every file of it
UploadRecords(r) ==
  /\ up[r].pc = "idle"
  /\ \A q \in Uploads : q < r => up[q].pc \in {"done", "failed"}
  /\ \E user \in Requesters, albumHeader \in AlbumHeaders, ageHeader \in AgeHeaders,
        batch \in RecordBatches :
       LET albumid == ParseAlbumId(albumHeader)
           age == IF TemporaryUploads(temporaryUploadAges)
                  THEN parseUploadAge(temporaryUploadAges, ageHeader)
                  ELSE Null
       IN IF TemporaryUploads(temporaryUploadAges)
             /\ PermanentNotPermitted(temporaryUploadAges, age)
          THEN /\ up' = [up EXCEPT ![r] =
                          [IdleUpload EXCEPT !.pc = "failed", !.user = user, !.path = "upload",
                                             !.batch = batch,
                                             !.ages = [k \in DOMAIN batch |-> ageHeader],
                                             !.error = "Permanent uploads are not permitted."]]
               /\ UNCHANGED <<idSet, uploads>>
          ELSE Prepare(r, user, "upload", batch,
                       [k \in DOMAIN batch |-> ageHeader],
                       [k \in DOMAIN batch |-> albumid],
                       [k \in DOMAIN batch |-> age])
  /\ UNCHANGED db
  /\ UNCHANGED otherThanStore

\* self.actuallyFinishChunks with one session: the age and the album id of
\* the file descriptor go to the combined file
FinishRecords(r) ==
  /\ up[r].pc = "idle"
  /\ \A q \in Uploads : q < r => up[q].pc \in {"done", "failed"}
  /\ \E user \in Requesters, albumHeader \in AlbumHeaders, ageHeader \in AgeHeaders,
        combined \in FileContents :
       LET albumid == ParseAlbumId(albumHeader)
           age == IF TemporaryUploads(temporaryUploadAges)
                  THEN parseUploadAge(temporaryUploadAges, ageHeader)
                  ELSE ageHeader
       IN IF TemporaryUploads(temporaryUploadAges)
             /\ PermanentNotPermitted(temporaryUploadAges, age)
          THEN /\ up' = [up EXCEPT ![r] =
                          [IdleUpload EXCEPT !.pc = "failed", !.user = user, !.path = "chunks",
                                             !.batch = <<combined>>,
                                             !.ages = <<ageHeader>>,
                                             !.error = "Permanent uploads are not permitted."]]
               /\ UNCHANGED <<idSet, uploads>>
          ELSE Prepare(r, user, "chunks", <<combined>>, <<ageHeader>>, <<albumid>>, <<age>>)
  /\ UNCHANGED db
  /\ UNCHANGED otherThanStore

\* a second passes
Tick ==
  /\ now < Epoch + MaxTicks
  /\ now' = now + 1
  /\ UNCHANGED <<cacheFileIdentifiers, idSet, uploads, callers, db, up, re, chunkVars, url,
                 temporaryUploadAges, clamd, filterEmptyFile, listVars>>

InitRecords ==
  /\ cacheFileIdentifiers = TRUE
  /\ idSet = {}
  /\ uploads = <<>>
  /\ callers = <<>>
  /\ db = <<>>
  /\ up = [r \in Uploads |-> IdleUpload]
  /\ re = <<>>
  /\ chunksData = <<>>
  /\ chunkDirs = <<>>
  /\ frag = <<>>
  /\ received = 0
  /\ fin = <<>>
  /\ url = <<>>
  /\ now = Epoch
  /\ temporaryUploadAges \in AllowSets
  /\ clamd = NoScanner
  /\ filterEmptyFile = FALSE
  /\ call = <<>>
  /\ ls = <<>>

NextRecords ==
  \/ Tick
  \/ \E r \in Uploads :
       \/ UploadRecords(r)
       \/ FinishRecords(r)
       \/ \E k \in 1..MaxBatch : StoreLookup(r, k)
       \/ \E k \in 1..MaxBatch : StoreUnlinkDuplicate(r, k)
       \/ StoreInsert(r)

SpecRecords == InitRecords /\ [][NextRecords]_vars

\* C11: every row of the files table has no expiry, or the expiry
\* timestamp + age * 3600 for an age of the configured allow-set
C11_ExpiryFromAllowSet ==
  \A i \in DOMAIN db :
    \/ db[i].expirydate = NULL
    \/ \E j \in DOMAIN temporaryUploadAges :
         db[i].expirydate = db[i].timestamp + (temporaryUploadAges[j] * 3600)

\* the lookup of task k of request r found a row
Found(r, k) == up[r].dbFile[k].name # NoName

C14_AlbumOfOwner ==
  \A i \in DOMAIN db :
    \/ db[i].albumid = NULL
    \/ /\ db[i].userid # NULL
       /\ \E a \in Albums : a.id = db[i].albumid /\ a.userid = db[i].userid

\* user 1 asked for album 2 and for album 1: the first row has no album,
\* the second has album 1
C14_Witness ==
  /\ \A r \in Uploads : up[r].pc = "done" /\ up[r].user = 1 /\ ~Found(r, 1)
  /\ up[1].albumids[1] = 2
  /\ up[2].albumids[1] = 1
  /\ \E i \in DOMAIN db : db[i].name = up[1].infoMap[1].filename /\ db[i].albumid = NULL
  /\ \E i \in DOMAIN db : db[i].name = up[2].infoMap[1].filename /\ db[i].albumid = 1

PermanentRejected(r) == up[r].error = "Permanent uploads are not permitted."

\* C15: with temporary uploads enabled, the age of a prepared file is the
\* number read from the age sent when that number is in the allow-set and
\* no age when it is not, and the request is rejected as permanent exactly
\* when no age other than 0 was resolved and 0 is not in the allow-set
C15_AgeResolved ==
  TemporaryUploads(temporaryUploadAges) =>
    \A r \in Uploads : \A k \in DOMAIN up[r].ages :
      up[r].ages[k] # Undefined =>
        LET n == parseFloat(up[r].ages[k])
            member == Includes(temporaryUploadAges, n)
        IN /\ PermanentRejected(r) <=>
                (~member \/ n = 0) /\ ~Includes(temporaryUploadAges, 0)
           /\ k \in DOMAIN up[r].infoMap =>
                up[r].infoMap[k].age = IF member THEN Num(n) ELSE Null

\* allow-set {1, 24}: the age 2 is rejected, the age 24 is resolved
C15_Witness ==
  /\ temporaryUploadAges = <<1, 24>>
  /\ up[1].ages = <<Str(<<"2">>)>> /\ PermanentRejected(1) /\ up[1].path = "upload"
  /\ up[2].ages = <<Str(<<"2", "4">>)>> /\ up[2].pc = "done" /\ up[2].path = "upload"
  /\ up[2].infoMap[1].age = Num(24)

(***************************************************************************)
(* self.scanFiles and its call in self.actuallyUploadFiles: the file-batch *)
(* path of self.upload with a scanner, tag stripping off and empty files   *)
(* allowed.                                                                *)
(***************************************************************************)
\* the groups a user belongs to: user 1 is in the group user and in no
\* other
GroupsOf(user) == IF user = 1 THEN {"user"} ELSE {}

\* perms.is(user, group)
permsIs(user, group) == group \in GroupsOf(user)

\* utils.clamd of a deployment: with a scanner or none, a bypass group or
\* none (""), a whitelist of extensions or none, a size limit or none (0)
ClamdConfigs ==
  [scanner : BOOLEAN, groupBypass : {"", "user", "moderator"},
   whitelistExtensions : {<<>>, <<".png">>}, maxSize : {0, 1}]

\* the texts of the scanner's replies, character by character; "\\0" is
\* the character U+0000 that ends a reply
StreamPrefix == <<"s", "t", "r", "e", "a", "m", ":", " ">>
OK == <<"O", "K">>
FOUND == <<"F", "O", "U", "N", "D">>
FoundSuffix == <<" ">> \o FOUND \o <<"\\0">>

\* what scanFile resolves to: no threat, a threat, a threat whose name
\* holds OK, and an error the engine replies with
Replies ==
  {StreamPrefix \o OK \o <<"\\0">>,
   StreamPrefix \o <<"E", "v", "i", "l">> \o FoundSuffix,
   StreamPrefix \o <<"O", "K", "b", "o", "t">> \o FoundSuffix,
   <<"s", "i", "z", "e", " ", "E", "R", "R", "O", "R", "\\0">>}

\* String.prototype.includes
StringIncludes(str, sub) ==
  \E i \in 0..(Len(str) - Len(sub)) : SubSeq(str, i + 1, i + Len(sub)) = sub

\* str.replace(/^prefix/, '')
ReplaceStart(str, prefix) ==
  IF Len(str) >= Len(prefix) /\ SubSeq(str, 1, Len(prefix)) = prefix
  THEN SubSeq(str, Len(prefix) + 1, Len(str)) ELSE str

\* str.replace(/suffix$/, '')
ReplaceEnd(str, suffix) ==
  IF Len(str) >= Len(suffix) /\ SubSeq(str, Len(str) - Len(suffix) + 1, Len(str)) = suffix
  THEN SubSeq(str, 1, Len(str) - Len(suffix)) ELSE str

\* !reply.includes('OK') || reply.includes('FOUND')
IsThreat(reply) == ~StringIncludes(reply, OK) \/ StringIncludes(reply, FOUND)

\* reply.replace(/^stream: /, '').replace(/ FOUND\u0000$/, '')
FoundThreat(reply) == ReplaceEnd(ReplaceStart(reply, StreamPrefix), FoundSuffix)

\* what scanFiles returns: undefined, `Threat found: ${foundThreats[0]}${
\* foundThreats.length > 1 ? ', and more' : ''}.`, or the text of the catch
NoResult == [text |-> "", threat |-> <<>>, more |-> FALSE]
ThreatResult(foundThreats) ==
  IF foundThreats = <<>> THEN NoResult
  ELSE [text |-> "Threat found", threat |-> foundThreats[1], more |-> Len(foundThreats) > 1]
ClamAVError ==
  [text |-> "An unexpected error occurred with ClamAV, please contact the site owner.",
   threat |-> <<>>, more |-> FALSE]

\* user && utils.clamd.groupBypass && perms.is(user, utils.clamd.groupBypass)
GroupBypass(user) ==
  user # NULL /\ clamd.groupBypass # "" /\ permsIs(user, clamd.groupBypass)

\* the files scanFiles does not hand to the scanner: the extension is
\* whitelisted, or the file is larger than maxSize
ScanSkipped(info) ==
  \/ clamd.whitelistExtensions # <<>> /\ Includes(clamd.whitelistExtensions, info.filename.ext)
  \/ clamd.maxSize # 0 /\ info.size > clamd.maxSize

\* the scans that start for the prepared files: none without a scanner or
\* under the group bypass
ScanTasks(user, infoMap) ==
  [k \in DOMAIN infoMap |->
     IF ~clamd.scanner \/ GroupBypass(user) THEN "none"
     ELSE IF ScanSkipped(infoMap[k]) THEN "skipped"
     ELSE "scanning"]

\* a cleanup that unlinks the first prepared file only
UnlinkInfoMapFirst(dir, infoMap) ==
  IF infoMap = <<>> THEN dir ELSE UnlinkFile(dir, Head(infoMap).filename)

\* infoMap.map(info => utils.unlinkFile(info.data.filename).catch(logger.error))
RECURSIVE UnlinkInfoMap(_, _)
UnlinkInfoMap(dir, infoMap) ==
  IF infoMap = <<>> THEN dir
  ELSE UnlinkInfoMap(UnlinkFile(dir, Head(infoMap).filename), Tail(infoMap))

\* the request r after scanFiles has its results: the unlinks start when
\* there are results, and storeFilesToDb starts its tasks when there are none
AfterScan(request, results) ==
  IF results # NoResult
  THEN [request EXCEPT !.pc = "unlink", !.scanResult = results]
  ELSE [request EXCEPT !.pc = "tasks",
                       !.task = [k \in DOMAIN request.infoMap |-> "lookup"]]

\* a check that looks at the first file of the batch only
FirstFileEmpty(infoMap) == infoMap # <<>> /\ infoMap[1].size = 0

\* infoMap.some(file => file.data.size === 0)
SomeFileEmpty(infoMap) == \E k \in DOMAIN infoMap : infoMap[k].size = 0

\* self.upload -> self.actuallyUploadFiles with a batch of batches:
\* executeMulter receives the files; when empty files are filtered and one
\* of them is empty the unlinks of all of them start; else scanFiles starts
\* a scan for every file it does not skip, and with no scan to wait for
\* storeFilesToDb starts one task per file
ActuallyUploadFiles(r, batches) ==
  /\ up[r].pc = "idle"
  /\ \A q \in Uploads : q < r => up[q].pc # "idle"
  /\ \E user \in Owners, batch \in batches :
       /\ FilesReceived + Len(batch) <= MaxFiles
       /\ \E m \in MulterStore(batch, <<>>, idSet, uploads) :
          /\ idSet' = m.used
          /\ uploads' = IF m.ok THEN m.dir ELSE RemoveAll(m.dir, m.infos)
          /\ LET accepted == [IdleUpload EXCEPT
                                !.user = user, !.batch = batch,
                                !.after = {q \in Uploads : up[q].pc \in {"done", "failed"}}]
                 scan == ScanTasks(user, m.infos)
                 prepared == [accepted EXCEPT
                                !.infoMap = m.infos,
                                !.scan = [k \in DOMAIN m.infos |-> "none"],
                                !.reply = [k \in DOMAIN m.infos |-> <<>>]]
             IN up' = [up EXCEPT ![r] =
                         IF ~m.ok THEN [accepted EXCEPT !.pc = "failed"]
                         ELSE IF filterEmptyFile /\ SomeFileEmpty(m.infos)
                         THEN [prepared EXCEPT
                                 !.pc = "empty",
                                 !.unlink = [k \in DOMAIN m.infos |-> "pending"]]
                         ELSE IF \E k \in DOMAIN scan : scan[k] = "scanning"
                         THEN [prepared EXCEPT !.pc = "scan", !.scan = scan]
                         ELSE AfterScan([prepared EXCEPT !.scan = scan], NoResult)]
  /\ UNCHANGED db
  /\ UNCHANGED otherThanStore

\* the batches of the scanner's model hold no empty file
UploadFilesScanned(r) == ActuallyUploadFiles(r, Batches)

\* scanFile settles for one file.  A reply that is a threat is pushed to
\* foundThreats; the then of Promise.all runs when the last scan has
\* replied.  A rejection rejects Promise.all at once and the catch gives
\* the results; the scans that are still under way go on.
ScanFile(r, k) ==
  /\ k \in DOMAIN up[r].scan
  /\ up[r].scan[k] = "scanning"
  /\ \/ \E reply \in Replies :
          LET foundThreats == IF IsThreat(reply)
                              THEN Append(up[r].foundThreats, FoundThreat(reply))
                              ELSE up[r].foundThreats
              request == [up[r] EXCEPT !.scan[k] = "replied", !.reply[k] = reply,
                                       !.foundThreats = foundThreats]
          IN up' = [up EXCEPT ![r] =
                      IF /\ up[r].pc = "scan"
                         /\ \A j \in DOMAIN request.scan : request.scan[j] # "scanning"
                      THEN AfterScan(request, ThreatResult(foundThreats))
                      ELSE request]
     \/ LET request == [up[r] EXCEPT !.scan[k] = "rejected"]
        IN up' = [up EXCEPT ![r] =
                    IF up[r].pc = "scan" THEN AfterScan(request, ClamAVError)
                    ELSE request]
  /\ UNCHANGED <<idSet, uploads, db>>
  /\ UNCHANGED otherThanStore

\* if (results): the unlinks of all the prepared files settle, scanFiles
\* returns the results and actuallyUploadFiles throws them; self.upload
\* answers success: false with them as the description
ScanUnlink(r) ==
  /\ up[r].pc = "unlink"
  /\ uploads' = UnlinkInfoMap(uploads, up[r].infoMap)
  /\ up' = [up EXCEPT ![r].pc = "failed"]
  /\ UNCHANGED <<idSet, db>>
  /\ UNCHANGED otherThanStore

InitScan ==
  /\ cacheFileIdentifiers = TRUE
  /\ idSet = {}
  /\ uploads = <<>>
  /\ callers = <<>>
  /\ db = <<>>
  /\ up = [r \in Uploads |-> IdleUpload]
  /\ re = <<>>
  /\ chunksData = <<>>
  /\ chunkDirs = <<>>
  /\ frag = <<>>
  /\ received = 0
  /\ fin = <<>>
  /\ url = <<>>
  /\ now = Epoch
  /\ temporaryUploadAges = <<>>
  /\ clamd \in ClamdConfigs
  /\ filterEmptyFile = FALSE
  /\ call = <<>>
  /\ ls = <<>>

NextScan ==
  \E r \in Uploads :
    \/ UploadFilesScanned(r)
    \/ \E k \in 1..MaxBatch : ScanFile(r, k)
    \/ ScanUnlink(r)
    \/ \E k \in 1..MaxBatch : StoreLookup(r, k)
    \/ \E k \in 1..MaxBatch : StoreUnlinkDuplicate(r, k)
    \/ StoreInsert(r)

SpecScan == InitScan /\ [][NextScan]_vars

\* the owner of request r belongs to the configured bypass group
InBypassGroup(r) == up[r].user # NULL /\ clamd.groupBypass \in GroupsOf(up[r].user)

\* a scan of a file of request r replied something else than no threat
ThreatReported(r) ==
  \E k \in DOMAIN up[r].reply :
    up[r].reply[k] \notin {<<>>, StreamPrefix \o OK \o <<"\\0">>}

\* a scan of a file of request r ended with an error of the engine
EngineErrored(r) == \E k \in DOMAIN up[r].scan : up[r].scan[k] = "rejected"

EmptyBatches == UNION { [1..n -> {<<>>, <<0>>}] : n \in 1..MaxBatch }

\* a scanner that scans every file of every owner
Scanner == [scanner |-> TRUE, groupBypass |-> "", whitelistExtensions |-> <<>>,
            maxSize |-> 0]

UploadFilesEmpty(r) == ActuallyUploadFiles(r, EmptyBatches)

\* utils.unlinkFile(info.data.filename).catch(logger.error) settles for one
\* file of a batch with an empty file: the file is gone, or the unlink
\* failed and the error is logged; after the last of them the request
\* throws 'Empty files are not allowed.'
EmptyUnlink(r, k) ==
  /\ up[r].pc = "empty"
  /\ k \in DOMAIN up[r].unlink
  /\ up[r].unlink[k] = "pending"
  /\ \E outcome \in {"unlinked", "logged"} :
       LET unlink == [up[r].unlink EXCEPT ![k] = outcome]
       IN /\ uploads' = IF outcome = "unlinked"
                        THEN UnlinkFile(uploads, up[r].infoMap[k].filename)
                        ELSE uploads
          /\ up' = [up EXCEPT
                      ![r].unlink = unlink,
                      ![r].pc = IF \A j \in DOMAIN unlink : unlink[j] # "pending"
                                THEN "failed" ELSE "empty",
                      ![r].error = IF \A j \in DOMAIN unlink : unlink[j] # "pending"
                                   THEN "Empty files are not allowed." ELSE @]
  /\ UNCHANGED <<idSet, db>>
  /\ UNCHANGED otherThanStore

InitEmpty ==
  /\ cacheFileIdentifiers = TRUE
  /\ idSet = {}
  /\ uploads = <<>>
  /\ callers = <<>>
  /\ db = <<>>
  /\ up = [r \in Uploads |-> IdleUpload]
  /\ re = <<>>
  /\ chunksData = <<>>
  /\ chunkDirs = <<>>
  /\ frag = <<>>
  /\ received = 0
  /\ fin = <<>>
  /\ url = <<>>
  /\ now = Epoch
  /\ temporaryUploadAges = <<>>
  /\ clamd \in {NoScanner, Scanner}
  /\ filterEmptyFile \in BOOLEAN
  /\ call = <<>>
  /\ ls = <<>>

NextEmpty ==
  \E r \in Uploads :
    \/ UploadFilesEmpty(r)
    \/ \E k \in 1..MaxBatch : EmptyUnlink(r, k)
    \/ \E k \in 1..MaxBatch : ScanFile(r, k)
    \/ ScanUnlink(r)
    \/ \E k \in 1..MaxBatch : StoreLookup(r, k)
    \/ \E k \in 1..MaxBatch : StoreUnlinkDuplicate(r, k)
    \/ StoreInsert(r)

SpecEmpty == InitEmpty /\ [][NextEmpty]_vars

\* one of the files the request r sent has no byte
SentEmptyFile(r) == \E k \in DOMAIN up[r].batch : up[r].batch[k] = <<>>

\* C23: when empty files are filtered, a batch of files with an empty one
\* is neither scanned nor stored; the unlink of every one of its files is
\* started and each file whose unlink did not fail is gone when the request
\* ends, which it does with the error 'Empty files are not allowed.'
C23_EmptyFilesRejected ==
  \A r \in Uploads :
    filterEmptyFile /\ up[r].infoMap # <<>> /\ SentEmptyFile(r) =>
      /\ up[r].pc \in {"empty", "failed"}
      /\ DOMAIN up[r].unlink = DOMAIN up[r].infoMap
      /\ \A k \in DOMAIN up[r].scan : up[r].scan[k] = "none" /\ up[r].reply[k] = <<>>
      /\ up[r].task = <<>> /\ up[r].files = <<>>
      /\ \A k \in DOMAIN up[r].infoMap, i \in DOMAIN db :
           db[i].name # up[r].infoMap[k].filename
      /\ \A k \in DOMAIN up[r].infoMap :
           up[r].unlink[k] = "unlinked" => up[r].infoMap[k].filename \notin DOMAIN uploads
      /\ up[r].pc = "failed" =>
           /\ up[r].error = "Empty files are not allowed."
           /\ \A k \in DOMAIN up[r].unlink : up[r].unlink[k] \in {"unlinked", "logged"}

\* with a scanner: a batch of a file of one byte and an empty file has
\* failed; the unlink of the first failed and the second file is gone
C23_Witness ==
  \E r \in Uploads :
    /\ filterEmptyFile /\ clamd.scanner
    /\ up[r].batch = <<<<0>>, <<>>>>
    /\ up[r].pc = "failed"
    /\ up[r].unlink = <<"logged", "unlinked">>
    /\ up[r].infoMap[2].filename \notin DOMAIN uploads

(***************************************************************************)
(* self.isExtensionFiltered, applied to an extension as utils.extname      *)
(* returns it (in lower case, with its dot; empty when the name has none)  *)
(* under a configuration of the filter.                                    *)
(***************************************************************************)
LowerOf == [c \in {"E", "X", "P", "N", "G"} |->
              CASE c = "E" -> "e" [] c = "X" -> "x" [] c = "P" -> "p"
                [] c = "N" -> "n" [] c = "G" -> "g"]

\* extension.toLowerCase()
toLowerCase(str) ==
  [i \in DOMAIN str |-> IF str[i] \in DOMAIN LowerOf THEN LowerOf[str[i]] ELSE str[i]]

Exe == <<".", "e", "x", "e">>
Png == <<".", "p", "n", "g">>
Jpg == <<".", "j", "p", "g">>

\* the extensions of the uploaded files
Extnames == {<<>>, Exe, Png, Jpg}

\* config.extensionsFilter, as the deployment writes it
ExtensionsFilters ==
  {<<>>, <<Exe>>, <<<<".", "E", "X", "E">>>>, <<Png>>, <<<<".", "P", "n", "g">>, Jpg>>,
   <<Exe, Png>>}

ExtensionsFilterModes == {"blacklist", "whitelist"}

\* a comparison with the entries as they are written
SomeEntryIsAsWritten(filter, extname) == \E i \in DOMAIN filter : extname = filter[i]

\* config.extensionsFilter.some(extension => extname === extension.toLowerCase())
SomeEntryIs(filter, extname) == \E i \in DOMAIN filter : extname = toLowerCase(filter[i])

\* self.isExtensionFiltered(extname)
isExtensionFiltered(config, extname) ==
  IF extname = <<>> /\ config.filterNoExtension THEN TRUE
  ELSE IF extname # <<>> /\ config.extensionsFilter # <<>>
  THEN LET match == SomeEntryIs(config.extensionsFilter, extname)
           whitelist == config.extensionsFilterMode = "whitelist"
       IN (~whitelist /\ match) \/ (whitelist /\ ~match)
  ELSE FALSE

\* the function is applied to the extension of a file
ExtensionChecked ==
  /\ call.pc = "ready"
  /\ \E extname \in Extnames :
       call' = [call EXCEPT !.pc = "returned", !.extname = extname,
                            !.filtered = isExtensionFiltered(call.config, extname)]
  /\ UNCHANGED <<cacheFileIdentifiers, idSet, uploads, callers, db, up, re, chunkVars, url,
                 policyVars, ls>>

\* the next file comes
ExtensionNext ==
  /\ call.pc = "returned"
  /\ call' = [call EXCEPT !.pc = "ready", !.extname = <<>>, !.filtered = FALSE]
  /\ UNCHANGED <<cacheFileIdentifiers, idSet, uploads, callers, db, up, re, chunkVars, url,
                 policyVars, ls>>

InitExtensions ==
  /\ cacheFileIdentifiers = FALSE
  /\ idSet = {}
  /\ uploads = <<>>
  /\ callers = <<>>
  /\ db = <<>>
  /\ up = <<>>
  /\ re = <<>>
  /\ chunksData = <<>>
  /\ chunkDirs = <<>>
  /\ frag = <<>>
  /\ received = 0
  /\ fin = <<>>
  /\ url = <<>>
  /\ now = Epoch
  /\ temporaryUploadAges = <<>>
  /\ clamd = NoScanner
  /\ filterEmptyFile = FALSE
  /\ ls = <<>>
  /\ \E no \in BOOLEAN, filter \in ExtensionsFilters, mode \in ExtensionsFilterModes :
       call = [pc |-> "ready", extname |-> <<>>, filtered |-> FALSE,
               config |-> [filterNoExtension |-> no, extensionsFilter |-> filter,
                           extensionsFilterMode |-> mode]]

NextExtensions == ExtensionChecked \/ ExtensionNext

SpecExtensions == InitExtensions /\ [][NextExtensions]_vars

\* the extension is in the list, whatever the case of the letters
InListIgnoringCase(filter, extname) ==
  \E i \in DOMAIN filter : toLowerCase(extname) = toLowerCase(filter[i])

Accounts ==
  {[id |-> 1, username |-> "alice", moderator |-> FALSE],
   [id |-> 2, username |-> "bob", moderator |-> FALSE],
   [id |-> 3, username |-> "mod", moderator |-> TRUE]}

\* a few characters of s from its start, if they have the given shape
\* ("d" a digit, any other character itself); <<>> otherwise
Take(s, shape) ==
  IF /\ Len(s) >= Len(shape)
     /\ \A i \in DOMAIN shape :
          IF shape[i] = "d" THEN IsDigit(s[i]) ELSE s[i] = shape[i]
  THEN SubSeq(s, 1, Len(shape)) ELSE <<>>

Drop(s, prefix) == SubSeq(s, Len(prefix) + 1, Len(s))

\* the parts of /^(\d{4})?(\/\d{2})?(\/\d{2})?\s?(\d{2})?(:\d{2})?(:\d{2})?$/,
\* each of them optional
DateShapes ==
  <<<<"d", "d", "d", "d">>, <<"/", "d", "d">>, <<"/", "d", "d">>, <<" ">>,
    <<"d", "d">>, <<":", "d", "d">>, <<":", "d", "d">>>>

RECURSIVE MatchFrom(_, _)
\* s matched against the parts from the k-th on: what each part took
\* (<<>> for a part that took nothing), and whether s was used up
MatchFrom(s, k) ==
  IF k > Len(DateShapes) THEN [ok |-> s = <<>>, g |-> <<>>]
  ELSE LET part == Take(s, DateShapes[k])
           rest == MatchFrom(Drop(s, part), k + 1)
       IN [ok |-> rest.ok, g |-> <<part>> \o rest.g]

\* date.match(...): the year, month, day, blank, hours, minutes and seconds
DateMatch(s) == MatchFrom(s, 1)

\* the days from 1970/01/01 to the given day
DaysFromCivil(year, month, day) ==
  LET y == IF month <= 2 THEN year - 1 ELSE year
      era == y \div 400
      yoe == y - (era * 400)
      mp == IF month > 2 THEN month - 3 ELSE month + 9
      doy == (((153 * mp) + 2) \div 5) + (day - 1)
      doe == (yoe * 365) + (yoe \div 4) - (yoe \div 100) + doy
  IN (era * 146097) + doe - 719468

SecondsPerDay == 86400

\* parseDate(date, minoffset, true), in seconds, for a client in the
\* time zone of the server: the given day or today, at the given time or
\* at the present time of day; null when the pattern does not match
parseDate(date, t) ==
  LET m == DateMatch(date)
      Given(k) == m.g[k] # <<>>
      Number(k) == DigitsValue(IF k = 1 \/ k = 5 THEN m.g[k] ELSE Tail(m.g[k]))
      day == IF Given(1)
             THEN DaysFromCivil(Number(1), IF Given(2) THEN Number(2) ELSE 1,
                                IF Given(3) THEN Number(3) ELSE 1)
             ELSE t \div SecondsPerDay
      time == IF Given(5)
              THEN (Number(5) * 3600) + (IF Given(6) THEN Number(6) * 60 ELSE 0)
                   + (IF Given(7) THEN Number(7) ELSE 0)
              ELSE t % SecondsPerDay
  IN IF m.ok THEN Num((day * SecondsPerDay) + time) ELSE Null

\* a range of the filters: queries.date, queries.expiry
NoRange == [given |-> FALSE, from |-> Undefined, to |-> Undefined]
DateRange(from, to) == [given |-> TRUE, from |-> from, to |-> to]

\* "Parse dates to timestamps": an endpoint that is given is parsed
ParseRange(range, t) ==
  [range EXCEPT !.from = IF Truthy(@) THEN parseDate(@.str, t) ELSE @,
                !.to = IF Truthy(@) THEN parseDate(@.str, t) ELSE @]

\* a keyword of the filters: queries.user, queries.exclude.user
NoKeyword == [given |-> FALSE, values |-> <<>>]
Keyword(values) == [given |-> TRUE, values |-> values]

RECURSIVE Select(_, _, _)
\* the values of a at the indexes of idx from i on, in their order
Select(a, idx, i) ==
  IF i > Len(a) THEN <<>>
  ELSE (IF i \in idx THEN <<a[i]>> ELSE <<>>) \o Select(a, idx, i + 1)

\* a.filter((v, i, a) => a.indexOf(v) === i)
Unique(a) == Select(a, {i \in DOMAIN a : \A j \in 1..(i - 1) : a[j] # a[i]}, 1)

\* a without its first "-", if it has one
SpliceDash(a) ==
  IF "-" \in Range(a)
  THEN Select(a, DOMAIN a \ {CHOOSE i \in DOMAIN a :
                               a[i] = "-" /\ \A j \in 1..(i - 1) : a[j] # "-"}, 1)
  ELSE a

\* the keyword as it was given, less its first "-"
ParseKeywordAsGiven(k) == IF k.given THEN Keyword(SpliceDash(k.values)) ELSE k

\* queries[key] after the loop over the keywords
ParseKeyword(k) == IF k.given THEN Keyword(SpliceDash(Unique(k.values))) ELSE k

\* flags[`no${key}`]: queries[key] is there and indexOf('-') finds one
NullFlag(k) == k.given /\ "-" \in Range(Unique(k.values))

\* the usernames looked up: the inclusions, then the exclusions
UsernamesOf(queries) == queries.user.values \o queries.excludeUser.values

\* db.table('users').whereIn('username', usernames)
UploadersOf(usernames) == {a \in Accounts : a.username \in Range(usernames)}

\* the usernames that no row of the lookup carries
NotFound(usernames, uploaders) ==
  Select(usernames,
         {i \in DOMAIN usernames : \A a \in uploaders : a.username # usernames[i]}, 1)

\* "If no matches, or mismatched results"
LookupMismatch(usernames, uploaders) == Cardinality(uploaders) # Len(usernames)

\* a comparison of the store with a bound value: never true of NULL
SqlAtLeast(column, v) == column # NULL /\ v.type = "number" /\ column >= v.num

SqlBetween(column, from, to) ==
  /\ column # NULL
  /\ from.type = "number" /\ to.type = "number"
  /\ from.num <= column /\ column <= to.num

\* the date and expiry part of the filter
RangesAccept(queries, row) ==
  /\ queries.date.given =>
       IF queries.date.to.type = "number"
       THEN SqlBetween(row.timestamp, queries.date.from, queries.date.to)
       ELSE SqlAtLeast(row.timestamp, queries.date.from)
  /\ queries.expiry.given =>
       IF queries.expiry.to.type = "number"
       THEN SqlBetween(row.expirydate, queries.expiry.from, queries.expiry.to)
       ELSE SqlAtLeast(row.expirydate, queries.date.from)

\* the filter reads queries.date.from of filters that have no date
RangesThrow(queries) ==
  queries.expiry.given /\ queries.expiry.to.type # "number" /\ ~queries.date.given

\* the uploaders part of the filter; no condition at all accepts every row
UploadersAccept(q, row) ==
  \/ q.uploaders = {} /\ q.excludeUploaders = {} /\ ~q.nouser
  \/ q.uploaders # {} /\ row.userid \in q.uploaders
  \/ q.excludeUploaders # {} /\ row.userid # NULL /\ row.userid \notin q.excludeUploaders
  \/ q.nouser /\ row.userid = NULL

\* filter(): the rows of the files table that the request q selects
Filter(q, row) ==
  IF q.id # NULL THEN row.albumid = q.id
  ELSE IF ~q.all THEN row.userid = q.user
  ELSE UploadersAccept(q, row) /\ RangesAccept(q.queries, row)

FilterThrows(q) == q.id = NULL /\ q.all /\ RangesThrow(q.queries)

NumListRequests == 1
MaxNames == 2

ListRequests == 1..NumListRequests

\* the files table that the listings read
ListedRows ==
  <<[name |-> 1, size |-> 1, hash |-> 1, userid |-> 1, albumid |-> 1,
     timestamp |-> 1000, expirydate |-> NULL],
    [name |-> 2, size |-> 1, hash |-> 2, userid |-> 2, albumid |-> 2,
     timestamp |-> 2000, expirydate |-> 9200],
    [name |-> 3, size |-> 1, hash |-> 3, userid |-> NULL, albumid |-> NULL,
     timestamp |-> 1500, expirydate |-> NULL],
    [name |-> 4, size |-> 1, hash |-> 4, userid |-> 1, albumid |-> NULL,
     timestamp |-> 3000, expirydate |-> 6600]>>

\* the sequences over names of at least one and at most n values
NameLists(names, n) == UNION {[1..k -> names] : k \in 1..n}

UserKeywords ==
  {NoKeyword} \cup {Keyword(v) : v \in NameLists({"alice", "carol", "-"}, MaxNames)}
ExcludeKeywords ==
  {NoKeyword} \cup {Keyword(v) : v \in NameLists({"alice", "bob"}, MaxNames)}

\* the first day of 1970 at 00:30, no date
DateTexts == {<<"1", "9", "7", "0", "/", "0", "1", "/", "0", "1", " ", "0", "0", ":", "3", "0">>,
              <<"x">>}
\* 02 of today, no date
ExpiryTexts == {<<"0", "2">>, <<"2", "h">>}

RangesOver(texts) ==
  {NoRange} \cup {DateRange(Str(from), to) :
                    from \in texts, to \in {Undefined} \cup {Str(t) : t \in texts}}

NoFilters == [given |-> FALSE, user |-> NoKeyword, excludeUser |-> NoKeyword,
              date |-> NoRange, expiry |-> NoRange]
FilterInputs ==
  {[given |-> TRUE, user |-> u, excludeUser |-> x, date |-> d, expiry |-> e] :
     u \in UserKeywords, x \in ExcludeKeywords,
     d \in RangesOver(DateTexts), e \in RangesOver(ExpiryTexts)}

IdleList ==
  [pc |-> "idle", user |-> NULL, ismoderator |-> FALSE, all |-> FALSE,
   filters |-> NoFilters, id |-> NULL, queries |-> NoFilters, nouser |-> FALSE,
   usernames |-> <<>>, uploaders |-> {}, excludeUploaders |-> {},
   status |-> 0, success |-> FALSE, description |-> "", notFound |-> <<>>, count |-> 0,
   files |-> <<>>, queried |-> FALSE]

\* filterObj.queries after the keywords and the ranges are parsed
ParseFilters(filters, t) ==
  [filters EXCEPT !.user = ParseKeyword(@),
                  !.date = IF @.given THEN ParseRange(@, t) ELSE @,
                  !.expiry = IF @.given THEN ParseRange(@, t) ELSE @]

\* self.list up to its first query: the caller is authorized, an
\* unprivileged caller of all or filters is refused, the filters are parsed
ListRequest(l) ==
  /\ ls[l].pc = "idle"
  /\ \E caller \in Accounts, all \in BOOLEAN, id \in {NULL} \cup {a.id : a \in Albums},
        filters \in {NoFilters} \cup FilterInputs :
       LET q == [ls[l] EXCEPT !.user = caller.id, !.ismoderator = caller.moderator,
                              !.all = all, !.filters = filters, !.id = id]
           queries == ParseFilters(filters, now)
       IN IF (all \/ filters.given) /\ ~caller.moderator
          THEN ls' = [ls EXCEPT ![l] = [q EXCEPT !.pc = "done", !.status = 403]]
          ELSE ls' = [ls EXCEPT ![l] =
                 [q EXCEPT !.queries = queries,
                           !.nouser = NullFlag(filters.user),
                           !.pc = IF queries.user.given \/ queries.excludeUser.given
                                  THEN "users" ELSE "count"]]
  /\ UNCHANGED otherThanList

\* the users lookup settles: the request ends when the rows are not as
\* many as the usernames, or the rows are split into the two lists
ListUsers(l) ==
  /\ ls[l].pc = "users"
  /\ LET usernames == UsernamesOf(ls[l].queries)
         uploaders == UploadersOf(usernames)
     IN IF LookupMismatch(usernames, uploaders)
        THEN ls' = [ls EXCEPT ![l].pc = "done", ![l].status = 200,
                              ![l].description = "Users not found",
                              ![l].usernames = usernames,
                              ![l].notFound = NotFound(usernames, uploaders)]
        ELSE ls' = [ls EXCEPT
               ![l].pc = "count", ![l].usernames = usernames,
               ![l].uploaders =
                 {a.id : a \in {u \in uploaders :
                                  u.username \in Range(ls[l].queries.user.values)}},
               ![l].excludeUploaders =
                 {a.id : a \in {u \in uploaders :
                                  u.username \notin Range(ls[l].queries.user.values)}}]
  /\ UNCHANGED otherThanList

\* the rows that the request selects, the latest first
Selected(q) ==
  LET idx == {i \in DOMAIN db : Filter(q, db[i])}
      asc == Select(db, idx, 1)
  IN [i \in 1..Len(asc) |-> asc[Len(asc) + 1 - i]]

\* the count query settles: an error of the filter ends the request with
\* status 500, no row ends it with no files
ListCount(l) ==
  /\ ls[l].pc = "count"
  /\ IF FilterThrows(ls[l])
     THEN ls' = [ls EXCEPT ![l].pc = "done", ![l].status = 500, ![l].queried = TRUE,
                           ![l].description = "An unexpected error occurred. Try again?"]
     ELSE LET count == Len(Selected(ls[l]))
          IN ls' = [ls EXCEPT ![l].pc = IF count = 0 THEN "done" ELSE "select",
                              ![l].status = IF count = 0 THEN 200 ELSE @,
                              ![l].success = (count = 0),
                              ![l].count = count, ![l].queried = TRUE]
  /\ UNCHANGED otherThanList

\* the select query settles and the files are sent
ListSelect(l) ==
  /\ ls[l].pc = "select"
  /\ ls' = [ls EXCEPT ![l].pc = "done", ![l].status = 200, ![l].success = TRUE,
                      ![l].files = Selected(ls[l])]
  /\ UNCHANGED otherThanList

InitList ==
  /\ cacheFileIdentifiers = FALSE
  /\ idSet = {}
  /\ uploads = <<>>
  /\ callers = <<>>
  /\ up = <<>>
  /\ re = <<>>
  /\ chunksData = <<>>
  /\ chunkDirs = <<>>
  /\ frag = <<>>
  /\ received = 0
  /\ fin = <<>>
  /\ url = <<>>
  /\ now = Epoch
  /\ temporaryUploadAges = <<>>
  /\ clamd = NoScanner
  /\ filterEmptyFile = FALSE
  /\ call = <<>>
  /\ db = ListedRows
  /\ ls = [l \in ListRequests |-> IdleList]

NextList ==
  \E l \in ListRequests :
    \/ ListRequest(l)
    \/ ListUsers(l)
    \/ ListCount(l)
    \/ ListSelect(l)

SpecList == InitList /\ [][NextList]_vars

\* C12: the files sent to a caller who is no moderator are files of that
\* caller, and a request of such a caller with the all flag or a filter
\* ends with status 403 before any query of the files table
C12_OwnFilesOnly ==
  \A l \in ListRequests :
    ~ls[l].ismoderator /\ ls[l].pc = "done" =>
      /\ \A i \in DOMAIN ls[l].files : ls[l].files[i].userid = ls[l].user
      /\ ls[l].all \/ ls[l].filters.given => ls[l].status = 403 /\ ~ls[l].queried

\* the usernames of a request that match no account
Unmatched(l) ==
  {n \in Range(ls[l].queries.user.values) \cup Range(ls[l].queries.excludeUser.values) :
     \A a \in Accounts : a.username # n}

\* C18: a request whose filters name users ends with the users-not-found
\* error exactly when one of the usernames, included or excluded, matches no
\* account, and the error names the unmatched usernames and no other
C18_UserNotFound ==
  \A l \in ListRequests :
    /\ ls[l].pc \in {"count", "select", "done"}
    /\ ls[l].queries.user.given \/ ls[l].queries.excludeUser.given
    => /\ ls[l].description = "Users not found" <=> Unmatched(l) # {}
       /\ ls[l].description = "Users not found" => Range(ls[l].notFound) = Unmatched(l)

\* a value is within the endpoints of a range that are numbers
Within(range, v) ==
  /\ range.given /\ range.from.type = "number" => v >= range.from.num
  /\ range.given /\ range.to.type = "number" => v <= range.to.num

\* both endpoints were given and neither matched the date pattern
BothNull(range) == range.given /\ range.from = Null /\ range.to = Null

\* C19: a listing with date or expiry ranges never ends with an error, and
\* it selects every record that is within the endpoints that are numbers,
\* an endpoint that does not match the date pattern being null and no bound
C19_NullEndpointUnbounded ==
  \A l \in ListRequests :
    /\ ls[l].pc = "done"
    /\ ls[l].all /\ ls[l].ismoderator /\ ls[l].id = NULL
    /\ ls[l].queries.date.given \/ ls[l].queries.expiry.given
    /\ ls[l].description # "Users not found"
    => /\ ls[l].status = 200
       /\ \A i \in DOMAIN db :
            /\ UploadersAccept(ls[l], db[i])
            /\ Within(ls[l].queries.date, db[i].timestamp)
            /\ \/ ~ls[l].queries.expiry.given
               \/ BothNull(ls[l].queries.expiry)
               \/ db[i].expirydate # NULL /\ Within(ls[l].queries.expiry, db[i].expirydate)
            => \E j \in DOMAIN ls[l].files : ls[l].files[j] = db[i]

\* C26: a listing with an expiry range whose upper endpoint is no number
\* and whose lower endpoint is one selects only records that expire at or
\* after that lower endpoint, whether or not a date range was supplied
C26_ExpiryOwnLowerEndpoint ==
  \A l \in ListRequests :
    /\ ls[l].pc = "done"
    /\ ls[l].all /\ ls[l].ismoderator /\ ls[l].id = NULL
    /\ ls[l].description # "Users not found"
    /\ ls[l].queries.expiry.given
    /\ ls[l].queries.expiry.to.type # "number"
    /\ ls[l].queries.expiry.from.type = "number"
    => /\ ls[l].status = 200
       /\ \A j \in DOMAIN ls[l].files :
            /\ ls[l].files[j].expirydate # NULL
            /\ ls[l].files[j].expirydate >= ls[l].queries.expiry.from.num

(***************************************************************************)
(* The loop of self.list over the keywords ip and user, applied to what    *)
(* searchQuery.parse returns for one of them: the inclusions queries[key]  *)
(* and the exclusions queries.exclude[key].                                *)
(***************************************************************************)
MaxValues == 3
KeywordNames == {"ip", "user"}
KeywordValues == {"a", "b", "-"}
KeywordInputs ==
  {NoKeyword} \cup {Keyword(v) : v \in NameLists(KeywordValues, MaxValues)}
ExclusionInputs == {NoKeyword, Keyword(<<"-">>), Keyword(<<"a", "-", "a">>)}

\* one round of the loop: queries[key] is made unique, its "-" becomes the
\* flag; queries.exclude[key] is left as it is
KeywordParsed ==
  /\ call.pc = "ready"
  /\ call' = [call EXCEPT !.pc = "parsed",
                          !.queries = ParseKeyword(call.given),
                          !.flag = NullFlag(call.given)]
  /\ UNCHANGED <<cacheFileIdentifiers, idSet, uploads, callers, db, up, re, chunkVars, url,
                 policyVars, ls>>

\* the next filters come
KeywordNext ==
  /\ call.pc = "parsed"
  /\ \E given \in KeywordInputs, exclude \in ExclusionInputs :
       call' = [call EXCEPT !.pc = "ready", !.given = given, !.queries = given,
                            !.exclude = exclude, !.flag = FALSE]
  /\ UNCHANGED <<cacheFileIdentifiers, idSet, uploads, callers, db, up, re, chunkVars, url,
                 policyVars, ls>>

InitKeywords ==
  /\ cacheFileIdentifiers = FALSE
  /\ idSet = {}
  /\ uploads = <<>>
  /\ callers = <<>>
  /\ db = <<>>
  /\ up = <<>>
  /\ re = <<>>
  /\ chunksData = <<>>
  /\ chunkDirs = <<>>
  /\ frag = <<>>
  /\ received = 0
  /\ fin = <<>>
  /\ url = <<>>
  /\ now = Epoch
  /\ temporaryUploadAges = <<>>
  /\ clamd = NoScanner
  /\ filterEmptyFile = FALSE
  /\ ls = <<>>
  /\ \E key \in KeywordNames, given \in KeywordInputs, exclude \in ExclusionInputs :
       call = [pc |-> "ready", key |-> key, given |-> given, queries |-> given,
               exclude |-> exclude, flag |-> FALSE]

NextKeywords == KeywordParsed \/ KeywordNext

SpecKeywords == InitKeywords /\ [][NextKeywords]_vars

\* C22: for ip and for user, the inclusion list after the loop holds every
\* value that was supplied, each once, and no "-"; the flag of the keyword
\* is set exactly when "-" was supplied as an inclusion, whatever the
\* exclusions are
C22_KeywordsUnique ==
  call.pc = "parsed" =>
    /\ \A i, j \in DOMAIN call.queries.values :
         call.queries.values[i] = call.queries.values[j] => i = j
    /\ "-" \notin Range(call.queries.values)
    /\ Range(call.queries.values) = Range(call.given.values) \ {"-"}
    /\ call.queries.given = call.given.given
    /\ call.flag <=> (call.given.given /\ \E i \in DOMAIN call.given.values :
                                             call.given.values[i] = "-")

\* "-" was supplied twice among the inclusions and as an exclusion
C22_Witness ==
  /\ call.pc = "parsed" /\ call.key = "ip"
  /\ call.given.values = <<"-", "a", "-">>
  /\ call.exclude.values = <<"-">>
  /\ call.queries.values = <<"a">> /\ call.flag

Occurrences(batch, c) == Cardinality({k \in DOMAIN batch : batch[k] = c})

\* content c reached the store from the requests in rs, once from each, and
\* from no other request under the owner scopes of rs
UploadedOnceBy(rs, c) ==
  /\ \A r \in rs : up[r].pc = "done" /\ Occurrences(up[r].batch, c) = 1
  /\ \A q \in Uploads \ rs :
       (\E r \in rs : up[q].user = up[r].user) => Occurrences(up[q].batch, c) = 0

RowsOfContent(c) == {i \in DOMAIN db : db[i].hash = md5(c) /\ db[i].size = Len(c)}

\* C2: the same content uploaded twice, one request after the other, under
\* the same owner scope leaves exactly one row, and both responses carry its
\* name; the same content uploaded by two different owners leaves two rows,
\* one for each owner.
C2_DedupSequential ==
  \A r1, r2 \in Uploads : \A c \in FileContents :
    (r1 # r2 /\ UploadedOnceBy({r1, r2}, c)) =>
      /\ (up[r1].user = up[r2].user /\ r1 \in up[r2].after) =>
           \E i \in DOMAIN db :
             /\ MatchingRows(up[r1].user, md5(c), Len(c)) = {i}
             /\ db[i].name \in {e.name : e \in Range(up[r1].response)}
             /\ db[i].name \in {e.name : e \in Range(up[r2].response)}
      /\ (up[r1].user # up[r2].user) =>
           \E i, j \in DOMAIN db :
             /\ i # j
             /\ RowsOfContent(c) = {i, j}
             /\ {db[i].userid, db[j].userid} = {up[r1].user, up[r2].user}

C2_Witness ==
  \E r1, r2 \in Uploads : \E c \in FileContents :
    /\ r1 # r2 /\ UploadedOnceBy({r1, r2}, c)
    /\ up[r1].user = up[r2].user /\ r1 \in up[r2].after
    /\ Len(up[r2].exists) = 1

\* C3: no two rows of the files table share (hash, size, userid), the
\* anonymous uploads forming the scope userid = NULL.
C3_UniqueTriple ==
  \A i, j \in DOMAIN db :
    (db[i].hash = db[j].hash /\ db[i].size = db[j].size /\ db[i].userid = db[j].userid)
      => i = j

InitAlloc ==
  /\ cacheFileIdentifiers \in BOOLEAN
  /\ idSet = {}
  /\ uploads = <<>>
  /\ callers = [c \in Callers |->
                  [pc |-> "idle", i |-> 0, ext |-> "", name |-> NoName, code |-> ""]]
  /\ db = <<>>
  /\ up = <<>>
  /\ re = <<>>
  /\ chunksData = <<>>
  /\ chunkDirs = <<>>
  /\ frag = <<>>
  /\ received = 0
  /\ fin = <<>>
  /\ url = <<>>
  /\ now = Epoch
  /\ temporaryUploadAges = <<>>
  /\ clamd = NoScanner
  /\ filterEmptyFile = FALSE
  /\ call = <<>>
  /\ ls = <<>>

NextAlloc == \E c \in Callers : Call(c) \/ Attempt(c) \/ Access(c) \/ CallerWrites(c)

SpecAlloc == InitAlloc /\ [][NextAlloc]_vars

\* the loop of a call goes on: randomstring.generate returns, and the
\* event loop settles paths.access
SpecAllocFair ==
  /\ InitAlloc
  /\ [][NextAlloc]_vars
  /\ \A c \in Callers : WF_vars(Attempt(c) \/ Access(c))

Returned(c) == callers[c].pc \in {"returned", "written"}

\* C21: a call of getUniqueRandomName ends: it returns a name or throws the
\* allocation error; it never makes more than idMaxTries attempts, and it
\* throws only when it has made them all
C21_AllocationTerminates ==
  /\ [](\A c \in Callers :
          /\ callers[c].i <= idMaxTries
          /\ callers[c].pc \in {"loop", "access"} => callers[c].i < idMaxTries
          /\ callers[c].pc = "thrown" => callers[c].i = idMaxTries)
  /\ \A c \in Callers :
       callers[c].pc \in {"loop", "access"} ~> (Returned(c) \/ callers[c].pc = "thrown")

\* in file mode a call threw after its last attempt found its name in use
C21_Witness ==
  \E c \in Callers :
    /\ ~cacheFileIdentifiers
    /\ callers[c].pc = "thrown" /\ callers[c].i = idMaxTries
    /\ callers[c].name \in DOMAIN uploads


\* C27: in file mode, a call whose paths.access was rejected with an error
\* other than ENOENT throws that error, and does not return the name it
\* was trying
C27_AccessErrorRethrown ==
  \A c \in Callers :
    ~cacheFileIdentifiers /\ callers[c].code \notin {"", "ENOENT"} =>
      callers[c].pc = "thrown" /\ ~Returned(c)

\* C1: no two successful calls of getUniqueRandomName return the same name,
\* in identifier-cache mode and in file-existence mode alike, whether or not
\* the first caller has written its file yet.
C1_UniqueNames ==
  \A c, d \in Callers :
    (c # d /\ Returned(c) /\ Returned(d)) => callers[c].name # callers[d].name

====
